---------------------------- MODULE Spec2Model ----------------------------
(***************************************************************************)
(* whisper-writer: the activation / recording / transcription             *)
(* orchestration.                                                          *)
(*                                                                         *)
(*   src/src/main.py           WhisperWriterApp: the foreground handlers   *)
(*                             (on_activation, on_deactivation,            *)
(*                             start_result_thread, stop_result_thread,    *)
(*                             on_transcription_complete,                  *)
(*                             on_settings_closed, exit_app, restart_app)  *)
(*   src/src/transcription.py  transcribe and the text pipeline            *)
(*                                                                         *)
(* result_thread.py (class ResultThread, the session worker) and           *)
(* key_listener.py are used by main.py but are not among the sources; the  *)
(* worker is modelled from spec.md sections 4.2, 5 and 9.                  *)
(*                                                                         *)
(* Text is a sequence of Unicode code points.                              *)
(*                                                                         *)
(* Two specifications: Spec is the application driven by key, window and   *)
(* worker events; SpecCalls calls the functions of transcription.py        *)
(* (execute_commands, post_process_transcription, transcribe,              *)
(* create_local_model) on their own, on every argument of a bounded set.   *)
(***************************************************************************)
EXTENDS Integers, Sequences, FiniteSets, TLC

VARIABLES
    config,        \* ConfigManager: the options read by the handlers
    listening,     \* self.key_listener exists and has been started
    stale_listeners, \* KeyListener objects started, then replaced by
                   \* initialize_components and never stopped
    pending,       \* the callbacks of the key event being dispatched that
                   \* have yet to run (one per started listener)
    handling,      \* where the foreground is in on_transcription_complete
                   \* (pc, sig) and in on_settings_closed (box)
    exited,        \* the process has ended
    result_thread, \* self.result_thread: 0 is None, else an index of threads
    threads,       \* every ResultThread object created so far, in order
    signals,       \* resultSignal emissions queued for the foreground
    typewritten,   \* the calls input_simulator.typewrite has received
    beeps,         \* completion sounds played
    launches,      \* subprocess.Popen calls made by handle_open_edge
    completed,     \* history: the number of sessions that completed their
                   \* pipeline (not cancelled) and emitted its result
    last,          \* history: the event handled by the last step
    args,          \* a pipeline function called on its own: its arguments
    ret            \* and what the call returned

vars == <<config, listening, stale_listeners, pending, handling, exited,
          result_thread, threads, signals, typewritten,
          beeps, launches, completed, last, args, ret>>

progVars == <<config, listening, stale_listeners, handling, exited,
              result_thread, threads, signals, typewritten, beeps, launches>>

(***************************************************************************)
(* Bounds of the model.                                                    *)
(***************************************************************************)
MaxSessions == 2

\* the KeyListener objects left started by on_settings_closed
MaxStaleListeners == 1

(***************************************************************************)
(* Text helpers: a Python str is a sequence of Unicode code points; the    *)
(* character classes and case mappings are those of the interpreter        *)
(* (CPython 3.11, Unicode 14), over all code points 0..1114111.            *)
(***************************************************************************)
\* str.isspace(): the white space of str.strip(), str.split() and re \s
Whitespace ==
    {
       9, 10, 11, 12, 13, 28, 29, 30, 31, 32, 133, 160,
       5760, 8192, 8193, 8194, 8195, 8196, 8197, 8198, 8199, 8200, 8201, 8202,
       8232, 8233, 8239, 8287, 12288
    }

\* re \w on a str pattern: the ranges <<first, last>> of the alphanumeric
\* code points, the underscore (95) among them
WordRanges ==
    <<
       <<48,57>>, <<65,90>>, <<95,95>>, <<97,122>>, <<170,170>>, <<178,179>>,
       <<181,181>>, <<185,186>>, <<188,190>>, <<192,214>>, <<216,246>>, <<248,705>>,
       <<710,721>>, <<736,740>>, <<748,748>>, <<750,750>>, <<880,884>>, <<886,887>>,
       <<890,893>>, <<895,895>>, <<902,902>>, <<904,906>>, <<908,908>>, <<910,929>>,
       <<931,1013>>, <<1015,1153>>, <<1162,1327>>, <<1329,1366>>, <<1369,1369>>, <<1376,1416>>,
       <<1488,1514>>, <<1519,1522>>, <<1568,1610>>, <<1632,1641>>, <<1646,1647>>, <<1649,1747>>,
       <<1749,1749>>, <<1765,1766>>, <<1774,1788>>, <<1791,1791>>, <<1808,1808>>, <<1810,1839>>,
       <<1869,1957>>, <<1969,1969>>, <<1984,2026>>, <<2036,2037>>, <<2042,2042>>, <<2048,2069>>,
       <<2074,2074>>, <<2084,2084>>, <<2088,2088>>, <<2112,2136>>, <<2144,2154>>, <<2160,2183>>,
       <<2185,2190>>, <<2208,2249>>, <<2308,2361>>, <<2365,2365>>, <<2384,2384>>, <<2392,2401>>,
       <<2406,2415>>, <<2417,2432>>, <<2437,2444>>, <<2447,2448>>, <<2451,2472>>, <<2474,2480>>,
       <<2482,2482>>, <<2486,2489>>, <<2493,2493>>, <<2510,2510>>, <<2524,2525>>, <<2527,2529>>,
       <<2534,2545>>, <<2548,2553>>, <<2556,2556>>, <<2565,2570>>, <<2575,2576>>, <<2579,2600>>,
       <<2602,2608>>, <<2610,2611>>, <<2613,2614>>, <<2616,2617>>, <<2649,2652>>, <<2654,2654>>,
       <<2662,2671>>, <<2674,2676>>, <<2693,2701>>, <<2703,2705>>, <<2707,2728>>, <<2730,2736>>,
       <<2738,2739>>, <<2741,2745>>, <<2749,2749>>, <<2768,2768>>, <<2784,2785>>, <<2790,2799>>,
       <<2809,2809>>, <<2821,2828>>, <<2831,2832>>, <<2835,2856>>, <<2858,2864>>, <<2866,2867>>,
       <<2869,2873>>, <<2877,2877>>, <<2908,2909>>, <<2911,2913>>, <<2918,2927>>, <<2929,2935>>,
       <<2947,2947>>, <<2949,2954>>, <<2958,2960>>, <<2962,2965>>, <<2969,2970>>, <<2972,2972>>,
       <<2974,2975>>, <<2979,2980>>, <<2984,2986>>, <<2990,3001>>, <<3024,3024>>, <<3046,3058>>,
       <<3077,3084>>, <<3086,3088>>, <<3090,3112>>, <<3114,3129>>, <<3133,3133>>, <<3160,3162>>,
       <<3165,3165>>, <<3168,3169>>, <<3174,3183>>, <<3192,3198>>, <<3200,3200>>, <<3205,3212>>,
       <<3214,3216>>, <<3218,3240>>, <<3242,3251>>, <<3253,3257>>, <<3261,3261>>, <<3293,3294>>,
       <<3296,3297>>, <<3302,3311>>, <<3313,3314>>, <<3332,3340>>, <<3342,3344>>, <<3346,3386>>,
       <<3389,3389>>, <<3406,3406>>, <<3412,3414>>, <<3416,3425>>, <<3430,3448>>, <<3450,3455>>,
       <<3461,3478>>, <<3482,3505>>, <<3507,3515>>, <<3517,3517>>, <<3520,3526>>, <<3558,3567>>,
       <<3585,3632>>, <<3634,3635>>, <<3648,3654>>, <<3664,3673>>, <<3713,3714>>, <<3716,3716>>,
       <<3718,3722>>, <<3724,3747>>, <<3749,3749>>, <<3751,3760>>, <<3762,3763>>, <<3773,3773>>,
       <<3776,3780>>, <<3782,3782>>, <<3792,3801>>, <<3804,3807>>, <<3840,3840>>, <<3872,3891>>,
       <<3904,3911>>, <<3913,3948>>, <<3976,3980>>, <<4096,4138>>, <<4159,4169>>, <<4176,4181>>,
       <<4186,4189>>, <<4193,4193>>, <<4197,4198>>, <<4206,4208>>, <<4213,4225>>, <<4238,4238>>,
       <<4240,4249>>, <<4256,4293>>, <<4295,4295>>, <<4301,4301>>, <<4304,4346>>, <<4348,4680>>,
       <<4682,4685>>, <<4688,4694>>, <<4696,4696>>, <<4698,4701>>, <<4704,4744>>, <<4746,4749>>,
       <<4752,4784>>, <<4786,4789>>, <<4792,4798>>, <<4800,4800>>, <<4802,4805>>, <<4808,4822>>,
       <<4824,4880>>, <<4882,4885>>, <<4888,4954>>, <<4969,4988>>, <<4992,5007>>, <<5024,5109>>,
       <<5112,5117>>, <<5121,5740>>, <<5743,5759>>, <<5761,5786>>, <<5792,5866>>, <<5870,5880>>,
       <<5888,5905>>, <<5919,5937>>, <<5952,5969>>, <<5984,5996>>, <<5998,6000>>, <<6016,6067>>,
       <<6103,6103>>, <<6108,6108>>, <<6112,6121>>, <<6128,6137>>, <<6160,6169>>, <<6176,6264>>,
       <<6272,6276>>, <<6279,6312>>, <<6314,6314>>, <<6320,6389>>, <<6400,6430>>, <<6470,6509>>,
       <<6512,6516>>, <<6528,6571>>, <<6576,6601>>, <<6608,6618>>, <<6656,6678>>, <<6688,6740>>,
       <<6784,6793>>, <<6800,6809>>, <<6823,6823>>, <<6917,6963>>, <<6981,6988>>, <<6992,7001>>,
       <<7043,7072>>, <<7086,7141>>, <<7168,7203>>, <<7232,7241>>, <<7245,7293>>, <<7296,7304>>,
       <<7312,7354>>, <<7357,7359>>, <<7401,7404>>, <<7406,7411>>, <<7413,7414>>, <<7418,7418>>,
       <<7424,7615>>, <<7680,7957>>, <<7960,7965>>, <<7968,8005>>, <<8008,8013>>, <<8016,8023>>,
       <<8025,8025>>, <<8027,8027>>, <<8029,8029>>, <<8031,8061>>, <<8064,8116>>, <<8118,8124>>,
       <<8126,8126>>, <<8130,8132>>, <<8134,8140>>, <<8144,8147>>, <<8150,8155>>, <<8160,8172>>,
       <<8178,8180>>, <<8182,8188>>, <<8304,8305>>, <<8308,8313>>, <<8319,8329>>, <<8336,8348>>,
       <<8450,8450>>, <<8455,8455>>, <<8458,8467>>, <<8469,8469>>, <<8473,8477>>, <<8484,8484>>,
       <<8486,8486>>, <<8488,8488>>, <<8490,8493>>, <<8495,8505>>, <<8508,8511>>, <<8517,8521>>,
       <<8526,8526>>, <<8528,8585>>, <<9312,9371>>, <<9450,9471>>, <<10102,10131>>, <<11264,11492>>,
       <<11499,11502>>, <<11506,11507>>, <<11517,11517>>, <<11520,11557>>, <<11559,11559>>, <<11565,11565>>,
       <<11568,11623>>, <<11631,11631>>, <<11648,11670>>, <<11680,11686>>, <<11688,11694>>, <<11696,11702>>,
       <<11704,11710>>, <<11712,11718>>, <<11720,11726>>, <<11728,11734>>, <<11736,11742>>, <<11823,11823>>,
       <<12293,12295>>, <<12321,12329>>, <<12337,12341>>, <<12344,12348>>, <<12353,12438>>, <<12445,12447>>,
       <<12449,12538>>, <<12540,12543>>, <<12549,12591>>, <<12593,12686>>, <<12690,12693>>, <<12704,12735>>,
       <<12784,12799>>, <<12832,12841>>, <<12872,12879>>, <<12881,12895>>, <<12928,12937>>, <<12977,12991>>,
       <<13312,19903>>, <<19968,42124>>, <<42192,42237>>, <<42240,42508>>, <<42512,42539>>, <<42560,42606>>,
       <<42623,42653>>, <<42656,42735>>, <<42775,42783>>, <<42786,42888>>, <<42891,42954>>, <<42960,42961>>,
       <<42963,42963>>, <<42965,42969>>, <<42994,43009>>, <<43011,43013>>, <<43015,43018>>, <<43020,43042>>,
       <<43056,43061>>, <<43072,43123>>, <<43138,43187>>, <<43216,43225>>, <<43250,43255>>, <<43259,43259>>,
       <<43261,43262>>, <<43264,43301>>, <<43312,43334>>, <<43360,43388>>, <<43396,43442>>, <<43471,43481>>,
       <<43488,43492>>, <<43494,43518>>, <<43520,43560>>, <<43584,43586>>, <<43588,43595>>, <<43600,43609>>,
       <<43616,43638>>, <<43642,43642>>, <<43646,43695>>, <<43697,43697>>, <<43701,43702>>, <<43705,43709>>,
       <<43712,43712>>, <<43714,43714>>, <<43739,43741>>, <<43744,43754>>, <<43762,43764>>, <<43777,43782>>,
       <<43785,43790>>, <<43793,43798>>, <<43808,43814>>, <<43816,43822>>, <<43824,43866>>, <<43868,43881>>,
       <<43888,44002>>, <<44016,44025>>, <<44032,55203>>, <<55216,55238>>, <<55243,55291>>, <<63744,64109>>,
       <<64112,64217>>, <<64256,64262>>, <<64275,64279>>, <<64285,64285>>, <<64287,64296>>, <<64298,64310>>,
       <<64312,64316>>, <<64318,64318>>, <<64320,64321>>, <<64323,64324>>, <<64326,64433>>, <<64467,64829>>,
       <<64848,64911>>, <<64914,64967>>, <<65008,65019>>, <<65136,65140>>, <<65142,65276>>, <<65296,65305>>,
       <<65313,65338>>, <<65345,65370>>, <<65382,65470>>, <<65474,65479>>, <<65482,65487>>, <<65490,65495>>,
       <<65498,65500>>, <<65536,65547>>, <<65549,65574>>, <<65576,65594>>, <<65596,65597>>, <<65599,65613>>,
       <<65616,65629>>, <<65664,65786>>, <<65799,65843>>, <<65856,65912>>, <<65930,65931>>, <<66176,66204>>,
       <<66208,66256>>, <<66273,66299>>, <<66304,66339>>, <<66349,66378>>, <<66384,66421>>, <<66432,66461>>,
       <<66464,66499>>, <<66504,66511>>, <<66513,66517>>, <<66560,66717>>, <<66720,66729>>, <<66736,66771>>,
       <<66776,66811>>, <<66816,66855>>, <<66864,66915>>, <<66928,66938>>, <<66940,66954>>, <<66956,66962>>,
       <<66964,66965>>, <<66967,66977>>, <<66979,66993>>, <<66995,67001>>, <<67003,67004>>, <<67072,67382>>,
       <<67392,67413>>, <<67424,67431>>, <<67456,67461>>, <<67463,67504>>, <<67506,67514>>, <<67584,67589>>,
       <<67592,67592>>, <<67594,67637>>, <<67639,67640>>, <<67644,67644>>, <<67647,67669>>, <<67672,67702>>,
       <<67705,67742>>, <<67751,67759>>, <<67808,67826>>, <<67828,67829>>, <<67835,67867>>, <<67872,67897>>,
       <<67968,68023>>, <<68028,68047>>, <<68050,68096>>, <<68112,68115>>, <<68117,68119>>, <<68121,68149>>,
       <<68160,68168>>, <<68192,68222>>, <<68224,68255>>, <<68288,68295>>, <<68297,68324>>, <<68331,68335>>,
       <<68352,68405>>, <<68416,68437>>, <<68440,68466>>, <<68472,68497>>, <<68521,68527>>, <<68608,68680>>,
       <<68736,68786>>, <<68800,68850>>, <<68858,68899>>, <<68912,68921>>, <<69216,69246>>, <<69248,69289>>,
       <<69296,69297>>, <<69376,69415>>, <<69424,69445>>, <<69457,69460>>, <<69488,69505>>, <<69552,69579>>,
       <<69600,69622>>, <<69635,69687>>, <<69714,69743>>, <<69745,69746>>, <<69749,69749>>, <<69763,69807>>,
       <<69840,69864>>, <<69872,69881>>, <<69891,69926>>, <<69942,69951>>, <<69956,69956>>, <<69959,69959>>,
       <<69968,70002>>, <<70006,70006>>, <<70019,70066>>, <<70081,70084>>, <<70096,70106>>, <<70108,70108>>,
       <<70113,70132>>, <<70144,70161>>, <<70163,70187>>, <<70272,70278>>, <<70280,70280>>, <<70282,70285>>,
       <<70287,70301>>, <<70303,70312>>, <<70320,70366>>, <<70384,70393>>, <<70405,70412>>, <<70415,70416>>,
       <<70419,70440>>, <<70442,70448>>, <<70450,70451>>, <<70453,70457>>, <<70461,70461>>, <<70480,70480>>,
       <<70493,70497>>, <<70656,70708>>, <<70727,70730>>, <<70736,70745>>, <<70751,70753>>, <<70784,70831>>,
       <<70852,70853>>, <<70855,70855>>, <<70864,70873>>, <<71040,71086>>, <<71128,71131>>, <<71168,71215>>,
       <<71236,71236>>, <<71248,71257>>, <<71296,71338>>, <<71352,71352>>, <<71360,71369>>, <<71424,71450>>,
       <<71472,71483>>, <<71488,71494>>, <<71680,71723>>, <<71840,71922>>, <<71935,71942>>, <<71945,71945>>,
       <<71948,71955>>, <<71957,71958>>, <<71960,71983>>, <<71999,71999>>, <<72001,72001>>, <<72016,72025>>,
       <<72096,72103>>, <<72106,72144>>, <<72161,72161>>, <<72163,72163>>, <<72192,72192>>, <<72203,72242>>,
       <<72250,72250>>, <<72272,72272>>, <<72284,72329>>, <<72349,72349>>, <<72368,72440>>, <<72704,72712>>,
       <<72714,72750>>, <<72768,72768>>, <<72784,72812>>, <<72818,72847>>, <<72960,72966>>, <<72968,72969>>,
       <<72971,73008>>, <<73030,73030>>, <<73040,73049>>, <<73056,73061>>, <<73063,73064>>, <<73066,73097>>,
       <<73112,73112>>, <<73120,73129>>, <<73440,73458>>, <<73648,73648>>, <<73664,73684>>, <<73728,74649>>,
       <<74752,74862>>, <<74880,75075>>, <<77712,77808>>, <<77824,78894>>, <<82944,83526>>, <<92160,92728>>,
       <<92736,92766>>, <<92768,92777>>, <<92784,92862>>, <<92864,92873>>, <<92880,92909>>, <<92928,92975>>,
       <<92992,92995>>, <<93008,93017>>, <<93019,93025>>, <<93027,93047>>, <<93053,93071>>, <<93760,93846>>,
       <<93952,94026>>, <<94032,94032>>, <<94099,94111>>, <<94176,94177>>, <<94179,94179>>, <<94208,100343>>,
       <<100352,101589>>, <<101632,101640>>, <<110576,110579>>, <<110581,110587>>, <<110589,110590>>, <<110592,110882>>,
       <<110928,110930>>, <<110948,110951>>, <<110960,111355>>, <<113664,113770>>, <<113776,113788>>, <<113792,113800>>,
       <<113808,113817>>, <<119520,119539>>, <<119648,119672>>, <<119808,119892>>, <<119894,119964>>, <<119966,119967>>,
       <<119970,119970>>, <<119973,119974>>, <<119977,119980>>, <<119982,119993>>, <<119995,119995>>, <<119997,120003>>,
       <<120005,120069>>, <<120071,120074>>, <<120077,120084>>, <<120086,120092>>, <<120094,120121>>, <<120123,120126>>,
       <<120128,120132>>, <<120134,120134>>, <<120138,120144>>, <<120146,120485>>, <<120488,120512>>, <<120514,120538>>,
       <<120540,120570>>, <<120572,120596>>, <<120598,120628>>, <<120630,120654>>, <<120656,120686>>, <<120688,120712>>,
       <<120714,120744>>, <<120746,120770>>, <<120772,120779>>, <<120782,120831>>, <<122624,122654>>, <<123136,123180>>,
       <<123191,123197>>, <<123200,123209>>, <<123214,123214>>, <<123536,123565>>, <<123584,123627>>, <<123632,123641>>,
       <<124896,124902>>, <<124904,124907>>, <<124909,124910>>, <<124912,124926>>, <<124928,125124>>, <<125127,125135>>,
       <<125184,125251>>, <<125259,125259>>, <<125264,125273>>, <<126065,126123>>, <<126125,126127>>, <<126129,126132>>,
       <<126209,126253>>, <<126255,126269>>, <<126464,126467>>, <<126469,126495>>, <<126497,126498>>, <<126500,126500>>,
       <<126503,126503>>, <<126505,126514>>, <<126516,126519>>, <<126521,126521>>, <<126523,126523>>, <<126530,126530>>,
       <<126535,126535>>, <<126537,126537>>, <<126539,126539>>, <<126541,126543>>, <<126545,126546>>, <<126548,126548>>,
       <<126551,126551>>, <<126553,126553>>, <<126555,126555>>, <<126557,126557>>, <<126559,126559>>, <<126561,126562>>,
       <<126564,126564>>, <<126567,126570>>, <<126572,126578>>, <<126580,126583>>, <<126585,126588>>, <<126590,126590>>,
       <<126592,126601>>, <<126603,126619>>, <<126625,126627>>, <<126629,126633>>, <<126635,126651>>, <<127232,127244>>,
       <<130032,130041>>, <<131072,173791>>, <<173824,177976>>, <<177984,178205>>, <<178208,183969>>, <<183984,191456>>,
       <<194560,195101>>, <<196608,201546>>
    >>

\* the simple lowercase mapping (Py_UNICODE_TOLOWER), as runs
\* <<first, last, step, delta>>: the code points first, first + step, ..,
\* last map to themselves plus delta, every other code point to itself
LowerRuns ==
    <<
       <<65,90,1,32>>, <<192,214,1,32>>, <<216,222,1,32>>, <<256,302,2,1>>,
       <<304,304,1,-199>>, <<306,310,2,1>>, <<313,327,2,1>>, <<330,374,2,1>>,
       <<376,376,1,-121>>, <<377,381,2,1>>, <<385,385,1,210>>, <<386,388,2,1>>,
       <<390,390,1,206>>, <<391,391,1,1>>, <<393,394,1,205>>, <<395,395,1,1>>,
       <<398,398,1,79>>, <<399,399,1,202>>, <<400,400,1,203>>, <<401,401,1,1>>,
       <<403,403,1,205>>, <<404,404,1,207>>, <<406,406,1,211>>, <<407,407,1,209>>,
       <<408,408,1,1>>, <<412,412,1,211>>, <<413,413,1,213>>, <<415,415,1,214>>,
       <<416,420,2,1>>, <<422,422,1,218>>, <<423,423,1,1>>, <<425,425,1,218>>,
       <<428,428,1,1>>, <<430,430,1,218>>, <<431,431,1,1>>, <<433,434,1,217>>,
       <<435,437,2,1>>, <<439,439,1,219>>, <<440,440,1,1>>, <<444,444,1,1>>,
       <<452,452,1,2>>, <<453,453,1,1>>, <<455,455,1,2>>, <<456,456,1,1>>,
       <<458,458,1,2>>, <<459,475,2,1>>, <<478,494,2,1>>, <<497,497,1,2>>,
       <<498,500,2,1>>, <<502,502,1,-97>>, <<503,503,1,-56>>, <<504,542,2,1>>,
       <<544,544,1,-130>>, <<546,562,2,1>>, <<570,570,1,10795>>, <<571,571,1,1>>,
       <<573,573,1,-163>>, <<574,574,1,10792>>, <<577,577,1,1>>, <<579,579,1,-195>>,
       <<580,580,1,69>>, <<581,581,1,71>>, <<582,590,2,1>>, <<880,882,2,1>>,
       <<886,886,1,1>>, <<895,895,1,116>>, <<902,902,1,38>>, <<904,906,1,37>>,
       <<908,908,1,64>>, <<910,911,1,63>>, <<913,929,1,32>>, <<931,939,1,32>>,
       <<975,975,1,8>>, <<984,1006,2,1>>, <<1012,1012,1,-60>>, <<1015,1015,1,1>>,
       <<1017,1017,1,-7>>, <<1018,1018,1,1>>, <<1021,1023,1,-130>>, <<1024,1039,1,80>>,
       <<1040,1071,1,32>>, <<1120,1152,2,1>>, <<1162,1214,2,1>>, <<1216,1216,1,15>>,
       <<1217,1229,2,1>>, <<1232,1326,2,1>>, <<1329,1366,1,48>>, <<4256,4293,1,7264>>,
       <<4295,4295,1,7264>>, <<4301,4301,1,7264>>, <<5024,5103,1,38864>>, <<5104,5109,1,8>>,
       <<7312,7354,1,-3008>>, <<7357,7359,1,-3008>>, <<7680,7828,2,1>>, <<7838,7838,1,-7615>>,
       <<7840,7934,2,1>>, <<7944,7951,1,-8>>, <<7960,7965,1,-8>>, <<7976,7983,1,-8>>,
       <<7992,7999,1,-8>>, <<8008,8013,1,-8>>, <<8025,8031,2,-8>>, <<8040,8047,1,-8>>,
       <<8072,8079,1,-8>>, <<8088,8095,1,-8>>, <<8104,8111,1,-8>>, <<8120,8121,1,-8>>,
       <<8122,8123,1,-74>>, <<8124,8124,1,-9>>, <<8136,8139,1,-86>>, <<8140,8140,1,-9>>,
       <<8152,8153,1,-8>>, <<8154,8155,1,-100>>, <<8168,8169,1,-8>>, <<8170,8171,1,-112>>,
       <<8172,8172,1,-7>>, <<8184,8185,1,-128>>, <<8186,8187,1,-126>>, <<8188,8188,1,-9>>,
       <<8486,8486,1,-7517>>, <<8490,8490,1,-8383>>, <<8491,8491,1,-8262>>, <<8498,8498,1,28>>,
       <<8544,8559,1,16>>, <<8579,8579,1,1>>, <<9398,9423,1,26>>, <<11264,11311,1,48>>,
       <<11360,11360,1,1>>, <<11362,11362,1,-10743>>, <<11363,11363,1,-3814>>, <<11364,11364,1,-10727>>,
       <<11367,11371,2,1>>, <<11373,11373,1,-10780>>, <<11374,11374,1,-10749>>, <<11375,11375,1,-10783>>,
       <<11376,11376,1,-10782>>, <<11378,11378,1,1>>, <<11381,11381,1,1>>, <<11390,11391,1,-10815>>,
       <<11392,11490,2,1>>, <<11499,11501,2,1>>, <<11506,11506,1,1>>, <<42560,42604,2,1>>,
       <<42624,42650,2,1>>, <<42786,42798,2,1>>, <<42802,42862,2,1>>, <<42873,42875,2,1>>,
       <<42877,42877,1,-35332>>, <<42878,42886,2,1>>, <<42891,42891,1,1>>, <<42893,42893,1,-42280>>,
       <<42896,42898,2,1>>, <<42902,42920,2,1>>, <<42922,42922,1,-42308>>, <<42923,42923,1,-42319>>,
       <<42924,42924,1,-42315>>, <<42925,42925,1,-42305>>, <<42926,42926,1,-42308>>, <<42928,42928,1,-42258>>,
       <<42929,42929,1,-42282>>, <<42930,42930,1,-42261>>, <<42931,42931,1,928>>, <<42932,42946,2,1>>,
       <<42948,42948,1,-48>>, <<42949,42949,1,-42307>>, <<42950,42950,1,-35384>>, <<42951,42953,2,1>>,
       <<42960,42960,1,1>>, <<42966,42968,2,1>>, <<42997,42997,1,1>>, <<65313,65338,1,32>>,
       <<66560,66599,1,40>>, <<66736,66771,1,40>>, <<66928,66938,1,39>>, <<66940,66954,1,39>>,
       <<66956,66962,1,39>>, <<66964,66965,1,39>>, <<68736,68786,1,64>>, <<71840,71871,1,32>>,
       <<93760,93791,1,32>>, <<125184,125217,1,34>>
    >>

\* the case-ignorable code points (_PyUnicode_IsCaseIgnorable), as ranges
CaseIgnorableRanges ==
    <<
       <<39,39>>, <<46,46>>, <<58,58>>, <<94,94>>, <<96,96>>, <<168,168>>,
       <<173,173>>, <<175,175>>, <<180,180>>, <<183,184>>, <<688,879>>, <<884,885>>,
       <<890,890>>, <<900,901>>, <<903,903>>, <<1155,1161>>, <<1369,1369>>, <<1375,1375>>,
       <<1425,1469>>, <<1471,1471>>, <<1473,1474>>, <<1476,1477>>, <<1479,1479>>, <<1524,1524>>,
       <<1536,1541>>, <<1552,1562>>, <<1564,1564>>, <<1600,1600>>, <<1611,1631>>, <<1648,1648>>,
       <<1750,1757>>, <<1759,1768>>, <<1770,1773>>, <<1807,1807>>, <<1809,1809>>, <<1840,1866>>,
       <<1958,1968>>, <<2027,2037>>, <<2042,2042>>, <<2045,2045>>, <<2070,2093>>, <<2137,2139>>,
       <<2184,2184>>, <<2192,2193>>, <<2200,2207>>, <<2249,2306>>, <<2362,2362>>, <<2364,2364>>,
       <<2369,2376>>, <<2381,2381>>, <<2385,2391>>, <<2402,2403>>, <<2417,2417>>, <<2433,2433>>,
       <<2492,2492>>, <<2497,2500>>, <<2509,2509>>, <<2530,2531>>, <<2558,2558>>, <<2561,2562>>,
       <<2620,2620>>, <<2625,2626>>, <<2631,2632>>, <<2635,2637>>, <<2641,2641>>, <<2672,2673>>,
       <<2677,2677>>, <<2689,2690>>, <<2748,2748>>, <<2753,2757>>, <<2759,2760>>, <<2765,2765>>,
       <<2786,2787>>, <<2810,2815>>, <<2817,2817>>, <<2876,2876>>, <<2879,2879>>, <<2881,2884>>,
       <<2893,2893>>, <<2901,2902>>, <<2914,2915>>, <<2946,2946>>, <<3008,3008>>, <<3021,3021>>,
       <<3072,3072>>, <<3076,3076>>, <<3132,3132>>, <<3134,3136>>, <<3142,3144>>, <<3146,3149>>,
       <<3157,3158>>, <<3170,3171>>, <<3201,3201>>, <<3260,3260>>, <<3263,3263>>, <<3270,3270>>,
       <<3276,3277>>, <<3298,3299>>, <<3328,3329>>, <<3387,3388>>, <<3393,3396>>, <<3405,3405>>,
       <<3426,3427>>, <<3457,3457>>, <<3530,3530>>, <<3538,3540>>, <<3542,3542>>, <<3633,3633>>,
       <<3636,3642>>, <<3654,3662>>, <<3761,3761>>, <<3764,3772>>, <<3782,3782>>, <<3784,3789>>,
       <<3864,3865>>, <<3893,3893>>, <<3895,3895>>, <<3897,3897>>, <<3953,3966>>, <<3968,3972>>,
       <<3974,3975>>, <<3981,3991>>, <<3993,4028>>, <<4038,4038>>, <<4141,4144>>, <<4146,4151>>,
       <<4153,4154>>, <<4157,4158>>, <<4184,4185>>, <<4190,4192>>, <<4209,4212>>, <<4226,4226>>,
       <<4229,4230>>, <<4237,4237>>, <<4253,4253>>, <<4348,4348>>, <<4957,4959>>, <<5906,5908>>,
       <<5938,5939>>, <<5970,5971>>, <<6002,6003>>, <<6068,6069>>, <<6071,6077>>, <<6086,6086>>,
       <<6089,6099>>, <<6103,6103>>, <<6109,6109>>, <<6155,6159>>, <<6211,6211>>, <<6277,6278>>,
       <<6313,6313>>, <<6432,6434>>, <<6439,6440>>, <<6450,6450>>, <<6457,6459>>, <<6679,6680>>,
       <<6683,6683>>, <<6742,6742>>, <<6744,6750>>, <<6752,6752>>, <<6754,6754>>, <<6757,6764>>,
       <<6771,6780>>, <<6783,6783>>, <<6823,6823>>, <<6832,6862>>, <<6912,6915>>, <<6964,6964>>,
       <<6966,6970>>, <<6972,6972>>, <<6978,6978>>, <<7019,7027>>, <<7040,7041>>, <<7074,7077>>,
       <<7080,7081>>, <<7083,7085>>, <<7142,7142>>, <<7144,7145>>, <<7149,7149>>, <<7151,7153>>,
       <<7212,7219>>, <<7222,7223>>, <<7288,7293>>, <<7376,7378>>, <<7380,7392>>, <<7394,7400>>,
       <<7405,7405>>, <<7412,7412>>, <<7416,7417>>, <<7468,7530>>, <<7544,7544>>, <<7579,7679>>,
       <<8125,8125>>, <<8127,8129>>, <<8141,8143>>, <<8157,8159>>, <<8173,8175>>, <<8189,8190>>,
       <<8203,8207>>, <<8216,8217>>, <<8228,8228>>, <<8231,8231>>, <<8234,8238>>, <<8288,8292>>,
       <<8294,8303>>, <<8305,8305>>, <<8319,8319>>, <<8336,8348>>, <<8400,8432>>, <<11388,11389>>,
       <<11503,11505>>, <<11631,11631>>, <<11647,11647>>, <<11744,11775>>, <<11823,11823>>, <<12293,12293>>,
       <<12330,12333>>, <<12337,12341>>, <<12347,12347>>, <<12441,12446>>, <<12540,12542>>, <<40981,40981>>,
       <<42232,42237>>, <<42508,42508>>, <<42607,42610>>, <<42612,42621>>, <<42623,42623>>, <<42652,42655>>,
       <<42736,42737>>, <<42752,42785>>, <<42864,42864>>, <<42888,42890>>, <<42994,42996>>, <<43000,43001>>,
       <<43010,43010>>, <<43014,43014>>, <<43019,43019>>, <<43045,43046>>, <<43052,43052>>, <<43204,43205>>,
       <<43232,43249>>, <<43263,43263>>, <<43302,43309>>, <<43335,43345>>, <<43392,43394>>, <<43443,43443>>,
       <<43446,43449>>, <<43452,43453>>, <<43471,43471>>, <<43493,43494>>, <<43561,43566>>, <<43569,43570>>,
       <<43573,43574>>, <<43587,43587>>, <<43596,43596>>, <<43632,43632>>, <<43644,43644>>, <<43696,43696>>,
       <<43698,43700>>, <<43703,43704>>, <<43710,43711>>, <<43713,43713>>, <<43741,43741>>, <<43756,43757>>,
       <<43763,43764>>, <<43766,43766>>, <<43867,43871>>, <<43881,43883>>, <<44005,44005>>, <<44008,44008>>,
       <<44013,44013>>, <<64286,64286>>, <<64434,64450>>, <<65024,65039>>, <<65043,65043>>, <<65056,65071>>,
       <<65106,65106>>, <<65109,65109>>, <<65279,65279>>, <<65287,65287>>, <<65294,65294>>, <<65306,65306>>,
       <<65342,65342>>, <<65344,65344>>, <<65392,65392>>, <<65438,65439>>, <<65507,65507>>, <<65529,65531>>,
       <<66045,66045>>, <<66272,66272>>, <<66422,66426>>, <<67456,67461>>, <<67463,67504>>, <<67506,67514>>,
       <<68097,68099>>, <<68101,68102>>, <<68108,68111>>, <<68152,68154>>, <<68159,68159>>, <<68325,68326>>,
       <<68900,68903>>, <<69291,69292>>, <<69446,69456>>, <<69506,69509>>, <<69633,69633>>, <<69688,69702>>,
       <<69744,69744>>, <<69747,69748>>, <<69759,69761>>, <<69811,69814>>, <<69817,69818>>, <<69821,69821>>,
       <<69826,69826>>, <<69837,69837>>, <<69888,69890>>, <<69927,69931>>, <<69933,69940>>, <<70003,70003>>,
       <<70016,70017>>, <<70070,70078>>, <<70089,70092>>, <<70095,70095>>, <<70191,70193>>, <<70196,70196>>,
       <<70198,70199>>, <<70206,70206>>, <<70367,70367>>, <<70371,70378>>, <<70400,70401>>, <<70459,70460>>,
       <<70464,70464>>, <<70502,70508>>, <<70512,70516>>, <<70712,70719>>, <<70722,70724>>, <<70726,70726>>,
       <<70750,70750>>, <<70835,70840>>, <<70842,70842>>, <<70847,70848>>, <<70850,70851>>, <<71090,71093>>,
       <<71100,71101>>, <<71103,71104>>, <<71132,71133>>, <<71219,71226>>, <<71229,71229>>, <<71231,71232>>,
       <<71339,71339>>, <<71341,71341>>, <<71344,71349>>, <<71351,71351>>, <<71453,71455>>, <<71458,71461>>,
       <<71463,71467>>, <<71727,71735>>, <<71737,71738>>, <<71995,71996>>, <<71998,71998>>, <<72003,72003>>,
       <<72148,72151>>, <<72154,72155>>, <<72160,72160>>, <<72193,72202>>, <<72243,72248>>, <<72251,72254>>,
       <<72263,72263>>, <<72273,72278>>, <<72281,72283>>, <<72330,72342>>, <<72344,72345>>, <<72752,72758>>,
       <<72760,72765>>, <<72767,72767>>, <<72850,72871>>, <<72874,72880>>, <<72882,72883>>, <<72885,72886>>,
       <<73009,73014>>, <<73018,73018>>, <<73020,73021>>, <<73023,73029>>, <<73031,73031>>, <<73104,73105>>,
       <<73109,73109>>, <<73111,73111>>, <<73459,73460>>, <<78896,78904>>, <<92912,92916>>, <<92976,92982>>,
       <<92992,92995>>, <<94031,94031>>, <<94095,94111>>, <<94176,94177>>, <<94179,94180>>, <<110576,110579>>,
       <<110581,110587>>, <<110589,110590>>, <<113821,113822>>, <<113824,113827>>, <<118528,118573>>, <<118576,118598>>,
       <<119143,119145>>, <<119155,119170>>, <<119173,119179>>, <<119210,119213>>, <<119362,119364>>, <<121344,121398>>,
       <<121403,121452>>, <<121461,121461>>, <<121476,121476>>, <<121499,121503>>, <<121505,121519>>, <<122880,122886>>,
       <<122888,122904>>, <<122907,122913>>, <<122915,122916>>, <<122918,122922>>, <<123184,123197>>, <<123566,123566>>,
       <<123628,123631>>, <<125136,125142>>, <<125252,125259>>, <<127995,127999>>, <<917505,917505>>, <<917536,917631>>,
       <<917760,917999>>
    >>

\* the cased code points (_PyUnicode_IsCased) among those that are not
\* case-ignorable, as ranges
CasedRanges ==
    <<
       <<65,90>>, <<97,122>>, <<170,170>>, <<181,181>>, <<186,186>>, <<192,214>>,
       <<216,246>>, <<248,442>>, <<444,447>>, <<452,659>>, <<661,687>>, <<880,883>>,
       <<886,887>>, <<891,893>>, <<895,895>>, <<902,902>>, <<904,906>>, <<908,908>>,
       <<910,929>>, <<931,1013>>, <<1015,1153>>, <<1162,1327>>, <<1329,1366>>, <<1376,1416>>,
       <<4256,4293>>, <<4295,4295>>, <<4301,4301>>, <<4304,4346>>, <<4349,4351>>, <<5024,5109>>,
       <<5112,5117>>, <<7296,7304>>, <<7312,7354>>, <<7357,7359>>, <<7424,7467>>, <<7531,7543>>,
       <<7545,7578>>, <<7680,7957>>, <<7960,7965>>, <<7968,8005>>, <<8008,8013>>, <<8016,8023>>,
       <<8025,8025>>, <<8027,8027>>, <<8029,8029>>, <<8031,8061>>, <<8064,8116>>, <<8118,8124>>,
       <<8126,8126>>, <<8130,8132>>, <<8134,8140>>, <<8144,8147>>, <<8150,8155>>, <<8160,8172>>,
       <<8178,8180>>, <<8182,8188>>, <<8450,8450>>, <<8455,8455>>, <<8458,8467>>, <<8469,8469>>,
       <<8473,8477>>, <<8484,8484>>, <<8486,8486>>, <<8488,8488>>, <<8490,8493>>, <<8495,8500>>,
       <<8505,8505>>, <<8508,8511>>, <<8517,8521>>, <<8526,8526>>, <<8544,8575>>, <<8579,8580>>,
       <<9398,9449>>, <<11264,11387>>, <<11390,11492>>, <<11499,11502>>, <<11506,11507>>, <<11520,11557>>,
       <<11559,11559>>, <<11565,11565>>, <<42560,42605>>, <<42624,42651>>, <<42786,42863>>, <<42865,42887>>,
       <<42891,42894>>, <<42896,42954>>, <<42960,42961>>, <<42963,42963>>, <<42965,42969>>, <<42997,42998>>,
       <<43002,43002>>, <<43824,43866>>, <<43872,43880>>, <<43888,43967>>, <<64256,64262>>, <<64275,64279>>,
       <<65313,65338>>, <<65345,65370>>, <<66560,66639>>, <<66736,66771>>, <<66776,66811>>, <<66928,66938>>,
       <<66940,66954>>, <<66956,66962>>, <<66964,66965>>, <<66967,66977>>, <<66979,66993>>, <<66995,67001>>,
       <<67003,67004>>, <<68736,68786>>, <<68800,68850>>, <<71840,71903>>, <<93760,93823>>, <<119808,119892>>,
       <<119894,119964>>, <<119966,119967>>, <<119970,119970>>, <<119973,119974>>, <<119977,119980>>, <<119982,119993>>,
       <<119995,119995>>, <<119997,120003>>, <<120005,120069>>, <<120071,120074>>, <<120077,120084>>, <<120086,120092>>,
       <<120094,120121>>, <<120123,120126>>, <<120128,120132>>, <<120134,120134>>, <<120138,120144>>, <<120146,120485>>,
       <<120488,120512>>, <<120514,120538>>, <<120540,120570>>, <<120572,120596>>, <<120598,120628>>, <<120630,120654>>,
       <<120656,120686>>, <<120688,120712>>, <<120714,120744>>, <<120746,120770>>, <<120772,120779>>, <<122624,122633>>,
       <<122635,122654>>, <<125184,125251>>, <<127280,127305>>, <<127312,127337>>, <<127344,127369>>
    >>

\* the element of a set of one element
The(S) == CHOOSE x \in S : TRUE

\* the place in the sorted, disjoint ranges rs[lo..hi] of the one that
\* holds c, or 0
RECURSIVE FindRange(_, _, _, _)
FindRange(c, rs, lo, hi) ==
    IF lo > hi THEN 0
    ELSE IF c < rs[(lo + hi) \div 2][1] THEN FindRange(c, rs, lo, ((lo + hi) \div 2) - 1)
    ELSE IF c > rs[(lo + hi) \div 2][2] THEN FindRange(c, rs, ((lo + hi) \div 2) + 1, hi)
    ELSE (lo + hi) \div 2

InRanges(c, rs) == FindRange(c, rs, 1, Len(rs)) # 0

\* c under the run r of LowerRuns
LowerIn(c, r) == IF (c - r[1]) % r[3] = 0 THEN c + r[4] ELSE c

\* the simple lowercase of one code point
lower_char(c) ==
    IF InRanges(c, LowerRuns)
    THEN LowerIn(c, LowerRuns[FindRange(c, LowerRuns, 1, Len(LowerRuns))])
    ELSE c

\* from position j of t in direction step (1 or -1): the first position
\* whose character is not case-ignorable, or 0
RECURSIVE SkipIgnorable(_, _, _)
SkipIgnorable(t, j, step) ==
    IF j < 1 \/ j > Len(t) THEN 0
    ELSE IF InRanges(t[j], CaseIgnorableRanges) THEN SkipIgnorable(t, j + step, step)
    ELSE j

\* the capital sigma at position i of t ends a word: a cased character
\* comes before it and none after it, case-ignorable characters skipped
FinalSigma(t, i) ==
    /\ SkipIgnorable(t, i - 1, -1) # 0
    /\ InRanges(t[SkipIgnorable(t, i - 1, -1)], CasedRanges)
    /\ \/ SkipIgnorable(t, i + 1, 1) = 0
       \/ ~InRanges(t[SkipIgnorable(t, i + 1, 1)], CasedRanges)

\* what str.lower() puts for the character at position i of t: the simple
\* lowercase, but for the capital sigma (931), which becomes the final (962)
\* or the medial (963) small sigma, and the dotted capital I (304), which
\* becomes i and a combining dot (105, 775)
LowerAt(t, i) ==
    IF t[i] = 931 THEN << IF FinalSigma(t, i) THEN 962 ELSE 963 >>
    ELSE IF t[i] = 304 THEN <<105, 775>>
    ELSE << lower_char(t[i]) >>

RECURSIVE LowerFrom(_, _)
LowerFrom(t, i) == IF i > Len(t) THEN <<>> ELSE LowerAt(t, i) \o LowerFrom(t, i + 1)

\* str.lower()
str_lower(t) == The({ LowerFrom(s, 1) : s \in {t} })

\* the regular expression class \w (letters, digits, underscore)
IsWordChar(c) == InRanges(c, WordRanges)

\* the regular expression class \s
IsSpace(c) == c \in Whitespace

\* t without its first n characters, while they are whitespace
RECURSIVE DropLeading(_, _)
DropLeading(t, n) ==
    IF n < Len(t) /\ IsSpace(t[n + 1]) THEN DropLeading(t, n + 1)
    ELSE SubSeq(t, n + 1, Len(t))

\* the first n characters of t, while the last of them is whitespace
RECURSIVE DropTrailing(_, _)
DropTrailing(t, n) ==
    IF n > 0 /\ IsSpace(t[n]) THEN DropTrailing(t, n - 1)
    ELSE SubSeq(t, 1, n)

str_lstrip(t) == The({ DropLeading(s, 0) : s \in {t} })

str_rstrip(t) == The({ DropTrailing(s, Len(s)) : s \in {t} })

\* str.strip()
str_strip(t) == str_rstrip(str_lstrip(t))

\* str.endswith(c) for a one-character suffix
str_endswith(t, c) == t # <<>> /\ t[Len(t)] = c

\* `needle in haystack` on strings
ContainsAt(haystack, needle) ==
    \E i \in 1..(Len(haystack) - Len(needle) + 1) :
        SubSeq(haystack, i, i + Len(needle) - 1) = needle

str_contains(haystack, needle) == \E h \in {haystack} : ContainsAt(h, needle)

\* the length of the run of non-whitespace characters starting at position i
RECURSIVE WordRun(_, _)
WordRun(t, i) ==
    IF i <= Len(t) /\ ~IsSpace(t[i]) THEN 1 + WordRun(t, i + 1) ELSE 0

\* the words of t from position i on
RECURSIVE SplitFrom(_, _)
SplitFrom(t, i) ==
    IF i > Len(t) THEN <<>>
    ELSE IF IsSpace(t[i]) THEN SplitFrom(t, i + 1)
    ELSE <<SubSeq(t, i, i + WordRun(t, i) - 1)>> \o SplitFrom(t, i + WordRun(t, i))

\* str.split(): the maximal runs of non-whitespace characters
str_split(t) == The({ SplitFrom(s, 1) : s \in {t} })

\* the words from the k-th on, each preceded by sep
RECURSIVE JoinFrom(_, _, _)
JoinFrom(sep, words, k) ==
    IF k > Len(words) THEN <<>> ELSE sep \o words[k] \o JoinFrom(sep, words, k + 1)

\* sep.join(words)
str_join(sep, words) ==
    The({ IF w = <<>> THEN <<>> ELSE w[1] \o JoinFrom(sep, w, 2) : w \in {words} })

(***************************************************************************)
(* transcription.py: the command registry and the text pipeline.           *)
(***************************************************************************)
\* re.sub(r'[^\w\s]', ' ', text.lower()) and ' '.join(sanitized.split())
sanitize_text(text) ==
    str_join(<<32>>,
             str_split(The({ [i \in 1..Len(lowered) |->
                                  IF IsWordChar(lowered[i]) \/ IsSpace(lowered[i])
                                  THEN lowered[i] ELSE 32]
                              : lowered \in {str_lower(text)} })))

\* the phrase registered by @register_command("wiz open edge")
WizOpenEdge == <<119,105,122,32,111,112,101,110,32,101,100,103,101>>

\* COMMAND_HANDLERS in registration (dict insertion) order
COMMAND_HANDLERS == << [phrase |-> WizOpenEdge, handler |-> "handle_open_edge"] >>

\* register_command(command_phrase)(func) on a registry: the dict assignment
\* COMMAND_HANDLERS[command_phrase] = func.  A phrase already registered
\* keeps its place and gets the new handler, a new phrase goes last.
register_command(handlers, command_phrase, func) ==
    IF \E k \in 1..Len(handlers) : handlers[k].phrase = command_phrase
    THEN [k \in 1..Len(handlers) |->
             IF handlers[k].phrase = command_phrase
             THEN [phrase |-> command_phrase, handler |-> func]
             ELSE handlers[k]]
    ELSE Append(handlers, [phrase |-> command_phrase, handler |-> func])

\* the character c matches the pattern letter l under re.IGNORECASE: its
\* simple lowercase (i, 105, for the dotted capital I, 304) is l, or l is i
\* and c the dotless i (305)
MatchLetter(c, l) ==
    \/ (IF c = 304 THEN 105 ELSE lower_char(c)) = l
    \/ l = 105 /\ c = 305

\* a literal of the pattern at position i, compared under re.IGNORECASE
MatchLiteral(t, i, lit) ==
    /\ i + Len(lit) - 1 <= Len(t)
    /\ \A k \in 1..Len(lit) : MatchLetter(t[i + k - 1], lit[k])

\* the length of the run of whitespace starting at position i (\s+ is greedy)
RECURSIVE SpaceRun(_, _)
SpaceRun(t, i) ==
    IF i <= Len(t) /\ IsSpace(t[i]) THEN 1 + SpaceRun(t, i + 1) ELSE 0

\* re.compile(r'wiz\s+open\s+edge', re.IGNORECASE) matched at position i:
\* the position just after the match, or 0 when there is none
PatternEnd(t, i) ==
    LET a  == i + 3
        n1 == SpaceRun(t, a)
        b  == a + n1
        c  == b + 4
        n2 == SpaceRun(t, c)
        d  == c + n2
    IN  IF /\ MatchLiteral(t, i, <<119,105,122>>)
           /\ n1 >= 1
           /\ MatchLiteral(t, b, <<111,112,101,110>>)
           /\ n2 >= 1
           /\ MatchLiteral(t, d, <<101,100,103,101>>)
        THEN d + 4
        ELSE 0

\* pattern.sub('', transcription): every non-overlapping match removed,
\* scanning from the left
RECURSIVE pattern_sub(_, _)
pattern_sub(t, i) ==
    IF i > Len(t) THEN <<>>
    ELSE The({ IF e # 0 THEN pattern_sub(t, e) ELSE <<t[i]>> \o pattern_sub(t, i + 1)
               : e \in {PatternEnd(t, i)} })

\* handle_open_edge with the except branch returning the text with the
\* pattern removed
handle_open_edge_removes_on_failure(transcription, popen_ok) ==
    [executed |-> popen_ok,
     text     |-> str_strip(pattern_sub(transcription, 1)),
     popen    |-> 1]

\* handle_open_edge(transcription); popen_ok is whether subprocess.Popen
\* returned (TRUE) or raised (FALSE).  popen counts the Popen calls made.
handle_open_edge(transcription, popen_ok) ==
    IF popen_ok
    THEN [executed |-> TRUE,
          text     |-> str_strip(pattern_sub(transcription, 1)),
          popen    |-> 1]
    ELSE [executed |-> FALSE, text |-> transcription, popen |-> 1]

\* the answer r of a handler, with the registry entry it was called for
Invoked(r, entry) ==
    [executed |-> r.executed, text |-> r.text, popen |-> r.popen,
     invoked |-> <<entry>>]

\* the answer r of a handler called before the handlers that gave rest
InvokedBefore(r, entry, rest) ==
    IF rest.invoked = <<>>
    THEN Invoked(r, entry)
    ELSE [rest EXCEPT !.popen = r.popen + rest.popen,
                      !.invoked = <<entry>> \o rest.invoked]

\* handler_func(transcription) for a registered handler.  handle_open_edge
\* is the handler of the sources; a handler under any other name is one a
\* caller of register_command supplied: it reports success, returns the
\* text as given and launches nothing.
call_handler(handler_func, transcription, popen_ok) ==
    IF handler_func = "handle_open_edge"
    THEN handle_open_edge(transcription, popen_ok)
    ELSE [executed |-> TRUE, text |-> transcription, popen |-> 0]

\* the loop of execute_commands over handlers[k..] with its first-match
\* return replaced: every matching entry's handler runs, the last one's
\* answer is returned
RECURSIVE execute_from_every_match(_, _, _, _)
execute_from_every_match(handlers, k, transcription, popen_ok) ==
    IF k > Len(handlers)
    THEN [executed |-> FALSE, text |-> transcription, popen |-> 0, invoked |-> <<>>]
    ELSE IF str_contains(sanitize_text(transcription), handlers[k].phrase)
    THEN InvokedBefore(call_handler(handlers[k].handler, transcription, popen_ok),
                       handlers[k],
                       execute_from_every_match(handlers, k + 1, transcription, popen_ok))
    ELSE execute_from_every_match(handlers, k + 1, transcription, popen_ok)

\* the loop of execute_commands with the no-match return replaced: the
\* sanitized text is returned
RECURSIVE execute_from_returns_sanitized(_, _, _, _)
execute_from_returns_sanitized(handlers, k, transcription, popen_ok) ==
    IF k > Len(handlers)
    THEN [executed |-> FALSE, text |-> sanitize_text(transcription), popen |-> 0,
          invoked |-> <<>>]
    ELSE IF str_contains(sanitize_text(transcription), handlers[k].phrase)
    THEN Invoked(call_handler(handlers[k].handler, transcription, popen_ok), handlers[k])
    ELSE execute_from_returns_sanitized(handlers, k + 1, transcription, popen_ok)

\* the loop of execute_commands over handlers[k..]: the first phrase that is
\* a substring of the sanitized text decides.  invoked lists the registry
\* entries whose handler was called.
RECURSIVE execute_from(_, _, _, _)
execute_from(handlers, k, transcription, popen_ok) ==
    IF k > Len(handlers)
    THEN [executed |-> FALSE, text |-> transcription, popen |-> 0, invoked |-> <<>>]
    ELSE IF str_contains(sanitize_text(transcription), handlers[k].phrase)
    THEN Invoked(call_handler(handlers[k].handler, transcription, popen_ok), handlers[k])
    ELSE execute_from(handlers, k + 1, transcription, popen_ok)

\* execute_commands(transcription)
execute_commands(transcription, popen_ok) ==
    The({ execute_from(COMMAND_HANDLERS, 1, t, popen_ok) : t \in {transcription} })

\* the flag steps of post_process_transcription with the space appended
\* before the trailing period is looked for
flag_steps_space_first(text, pp) ==
    LET t1 == IF pp.add_trailing_space THEN text \o <<32>> ELSE text
        t2 == IF pp.remove_trailing_period /\ str_endswith(t1, 46)
              THEN SubSeq(t1, 1, Len(t1) - 1) ELSE t1
    IN  IF pp.remove_capitalization THEN str_lower(t2) ELSE t2

\* post_process_transcription with those steps
post_process_transcription_space_first(transcription, pp, popen_ok) ==
    The({ [text     |-> flag_steps_space_first(cmd.text, pp),
           executed |-> cmd.executed,
           popen    |-> cmd.popen]
          : cmd \in {execute_commands(str_strip(transcription), popen_ok)} })

\* the steps of post_process_transcription that the flags of pp select, on
\* the answer cmd of execute_commands
flag_steps(cmd, pp) ==
    LET t1 == IF pp.remove_trailing_period /\ str_endswith(cmd.text, 46)
              THEN SubSeq(cmd.text, 1, Len(cmd.text) - 1) ELSE cmd.text
        t2 == IF pp.add_trailing_space THEN t1 \o <<32>> ELSE t1
        t3 == IF pp.remove_capitalization THEN str_lower(t2) ELSE t2
    IN  [text |-> t3, executed |-> cmd.executed, popen |-> cmd.popen]

\* post_process_transcription(transcription) under the post_processing
\* section pp of the configuration
post_process_transcription(transcription, pp, popen_ok) ==
    The({ flag_steps(cmd, pp) : cmd \in {execute_commands(str_strip(transcription),
                                                           popen_ok)} })

\* audio_data: None, or an array of 16-bit samples (which may have no
\* element).  What the selected backend does with the samples is a record:
\* it raises, or it returns a raw transcription.
NoAudio == [none |-> TRUE, samples |-> <<>>]

\* transcribe(audio_data, local_model): backend is the outcome of the
\* backend call, should one be made.  The result tells whether an exception
\* left transcribe, the text returned, which backend was called, and the
\* Popen calls made on the way.
transcribe(audio_data, cfg, backend, popen_ok) ==
    IF audio_data = NoAudio
    THEN [raised |-> FALSE, text |-> <<>>, called |-> "none", popen |-> 0]
    ELSE LET which == IF cfg.use_api THEN "api" ELSE "local" IN
         IF backend.raises
         THEN [raised |-> TRUE, text |-> <<>>, called |-> which, popen |-> 0]
         ELSE LET pp == post_process_transcription(backend.text, cfg.post_processing,
                                                       popen_ok)
              IN  [raised |-> FALSE, text |-> pp.text, called |-> which,
                   popen |-> pp.popen]

\* model_options.local.model_path absent (None)
NoModelPath == "None"

\* bool(model_path): neither None nor the empty string
PathSet(model_path) == model_path \notin {NoModelPath, ""}

\* create_local_model with the except branch left out: the first failure
\* leaves the function
create_local_model_no_fallback(local_model_options, load_ok) ==
    LET compute_type == local_model_options.compute_type
        model_path   == local_model_options.model_path
        device == IF compute_type = "int8" THEN "cpu" ELSE local_model_options.device
        first  == [model |-> IF PathSet(model_path) THEN model_path
                             ELSE local_model_options.model,
                   device |-> device, compute_type |-> compute_type,
                   download_root |-> "None"]
    IN  [raised |-> ~load_ok[1], attempts |-> <<first>>]

\* create_local_model(): local_model_options is the section
\* model_options.local; load_ok[n] tells whether the n-th WhisperModel(...)
\* construction returns (TRUE) or raises (FALSE).  attempts lists the
\* constructions made, the last of them is the model returned unless
\* raised.
create_local_model(local_model_options, load_ok) ==
    LET compute_type == local_model_options.compute_type
        model_path   == local_model_options.model_path
        device == IF compute_type = "int8" THEN "cpu" ELSE local_model_options.device
        first  == [model |-> IF PathSet(model_path) THEN model_path
                             ELSE local_model_options.model,
                   device |-> device, compute_type |-> compute_type,
                   download_root |-> "None"]
        fallback == [model |-> IF PathSet(model_path) THEN model_path
                               ELSE local_model_options.model,
                     device |-> "cpu", compute_type |-> compute_type,
                     download_root |-> "None"]
    IN  IF load_ok[1]
        THEN [raised |-> FALSE, attempts |-> <<first>>]
        ELSE [raised |-> ~load_ok[2], attempts |-> <<first, fallback>>]

(***************************************************************************)
(* Configuration (ConfigManager), fixed for the run.                       *)
(***************************************************************************)
RecordingModes == {"press_to_toggle", "hold_to_record", "continuous"}

\* The remaining options, as explored by the orchestration model: every
\* option off (local backend), and every option on (API backend).
Profiles ==
    { [noise_on_completion |-> b, use_api |-> b,
       post_processing |-> [remove_trailing_period |-> b,
                            add_trailing_space     |-> b,
                            remove_capitalization  |-> b]] : b \in BOOLEAN }

\* config_file_exists: src/config.yaml exists (ConfigManager.config_file_exists(),
\* os.path.exists); without it the options hold their default values
ConfigSpace ==
    { [recording_mode      |-> m,
       hide_status_window  |-> h,
       noise_on_completion |-> p.noise_on_completion,
       use_api             |-> p.use_api,
       post_processing     |-> p.post_processing,
       config_file_exists  |-> f] :
         m \in RecordingModes, h \in BOOLEAN, p \in Profiles, f \in BOOLEAN }

\* Raw transcriptions a backend returns in the orchestration model
RawTexts == { <<32,72,105,46>> }   \* " Hi."

BackendOutcomes ==
    {[raises |-> TRUE, text |-> <<>>]} \cup {[raises |-> FALSE, text |-> t] : t \in RawTexts}

\* the arrays of samples a recording hands over: none, one and two samples
SampleArrays == { <<>>, <<0>>, <<1, -1>> }

AudioBuffers == {NoAudio} \cup {[none |-> FALSE, samples |-> a] : a \in SampleArrays}

(***************************************************************************)
(* ResultThread, the session worker (result_thread.py is not among the     *)
(* sources; modelled from spec.md 4.2, 5, 9).  pc is the worker's          *)
(* position:                                                               *)
(*   "recording"    capturing audio              (SessionState Recording)  *)
(*   "transcribing" buffer closed, pipeline runs (Transcribing)            *)
(*   "stopped"      result emitted (the empty result when the session was  *)
(*                  cancelled), run() has not returned yet     (Stopped)   *)
(*   "finished"     run() has returned           (Stopped)                 *)
(***************************************************************************)
\* ResultThread(local_model) followed by start(): Idle -> Recording
ResultThread_start ==
    [pc               |-> "recording",
     stop_requested   |-> FALSE,
     cancel_requested |-> FALSE,
     outcome          |-> "none",
     text             |-> <<>>,
     transcribe_calls |-> 0,
     cancel_at        |-> "never"]

\* A thread object that has finished and that self.result_thread no longer
\* refers to is garbage: nothing can reach it, and its entry is cleared.
Collected ==
    [pc               |-> "finished",
     stop_requested   |-> FALSE,
     cancel_requested |-> FALSE,
     outcome          |-> "collected",
     text             |-> <<>>,
     transcribe_calls |-> 0,
     cancel_at        |-> "never"]

\* the thread objects once the reference to thread s is dropped
Release(ths, s) ==
    IF s # 0 /\ ths[s].pc = "finished" THEN [ths EXCEPT ![s] = Collected] ELSE ths

\* QThread.isRunning(): true from start() until run() has returned
isRunning(t) == t.pc \in {"recording", "transcribing", "stopped"}

\* stop_recording(): ask the worker to finalize capture and transcribe
ResultThread_stop_recording(ths, s) == [ths EXCEPT ![s].stop_requested = TRUE]

\* stop(): cancel; cooperative, observed by the worker at its safe points.
\* cancel_at is history: the position the session was in when a cancel was
\* first issued to it.
ResultThread_stop(ths, s) ==
    [ths EXCEPT ![s].cancel_requested = TRUE,
                ![s].cancel_at = IF @ = "never" THEN ths[s].pc ELSE @]

\* SessionState of spec.md section 3
SessionState(t) ==
    CASE t.pc = "recording"    -> "Recording"
      [] t.pc = "transcribing" -> "Transcribing"
      [] OTHER                 -> "Stopped"

(***************************************************************************)
(* WhisperWriterApp (main.py).  The handlers below give result_thread'     *)
(* and threads'; the actions that invoke them give the rest.               *)
(***************************************************************************)
\* `self.result_thread and self.result_thread.isRunning()`
ThreadRunning == result_thread # 0 /\ isRunning(threads[result_thread])

\* start_result_thread (main.py 195-207).  A new thread object is created
\* only below the model's bound on the number of sessions.
start_result_thread ==
    IF ThreadRunning
    THEN UNCHANGED <<result_thread, threads>>
    ELSE /\ Len(threads) < MaxSessions
         /\ threads' = Append(Release(threads, result_thread), ResultThread_start)
         /\ result_thread' = Len(threads) + 1

\* stop_result_thread (main.py 209-214)
stop_result_thread ==
    IF ThreadRunning
    THEN /\ threads' = ResultThread_stop(threads, result_thread)
         /\ UNCHANGED result_thread
    ELSE UNCHANGED <<result_thread, threads>>

\* on_activation with press_to_toggle cancelling instead of stopping
on_activation_toggle_cancels ==
    IF ThreadRunning
    THEN CASE config.recording_mode \in {"press_to_toggle", "continuous"} ->
                stop_result_thread
           [] OTHER ->
                UNCHANGED <<result_thread, threads>>
    ELSE start_result_thread

\* on_activation (main.py 173-185)
on_activation ==
    IF ThreadRunning
    THEN CASE config.recording_mode = "press_to_toggle" ->
                /\ threads' = ResultThread_stop_recording(threads, result_thread)
                /\ UNCHANGED result_thread
           [] config.recording_mode = "continuous" ->
                stop_result_thread
           [] OTHER ->
                UNCHANGED <<result_thread, threads>>
    ELSE start_result_thread

\* on_deactivation (main.py 187-193)
on_deactivation ==
    IF config.recording_mode = "hold_to_record" /\ ThreadRunning
    THEN /\ threads' = ResultThread_stop_recording(threads, result_thread)
         /\ UNCHANGED result_thread
    ELSE UNCHANGED <<result_thread, threads>>

\* the foreground is in no handler: not in on_transcription_complete, not
\* in the message box of on_settings_closed
NotHandling == [pc |-> "none", sig |-> [sender |-> 0, text |-> <<>>], box |-> FALSE]

\* on_transcription_complete(result) (main.py 216-228), invoked for the
\* queued emission sig = [sender, text] of a thread's resultSignal.  The
\* foreground waits in it twice, and the worker goes on meanwhile:
\*   handling.pc = "none"       the handler is entered and calls
\*                              input_simulator.typewrite(result) (220)
\*   handling.pc = "typewrite"  typewrite has returned; with
\*                              noise_on_completion the sound is played,
\*                              play(block=True) (223)
\*   otherwise                  the waits are over: start_result_thread in
\*                              continuous mode, key_listener.start() in
\*                              the others (225-228), and the handler returns
on_transcription_complete(sig) ==
    CASE handling.pc = "none" ->
            /\ typewritten' = Append(typewritten, sig)
            /\ handling' = [handling EXCEPT !.pc = "typewrite", !.sig = sig]
            /\ UNCHANGED <<beeps, listening, result_thread, threads>>
      [] handling.pc = "typewrite" /\ config.noise_on_completion ->
            /\ beeps' = beeps + 1
            /\ handling' = [handling EXCEPT !.pc = "play"]
            /\ UNCHANGED <<typewritten, listening, result_thread, threads>>
      [] OTHER ->
            /\ IF config.recording_mode = "continuous"
               THEN start_result_thread /\ UNCHANGED listening
               ELSE listening' = TRUE /\ UNCHANGED <<result_thread, threads>>
            /\ handling' = [handling EXCEPT !.pc = "none", !.sig = NotHandling.sig]
            /\ UNCHANGED <<typewritten, beeps>>

\* cleanup (main.py 124-131): the current key listener, if there is one, is
\* stopped
cleanup == listening' = FALSE

\* exit_app (main.py 133-138): cleanup, then app.quit() ends the event loop
\* and with it the process
exit_app == cleanup /\ exited' = TRUE

\* restart_app (main.py 140-144): as exit_app; the process that
\* QProcess.startDetached launches is another run of the program
restart_app == cleanup /\ exited' = TRUE

\* initialize_components (main.py 50-67); raises tells whether
\* create_local_model (line 62) raised.  Line 56 replaces self.key_listener
\* by a new one, not started: a started one it replaces stays started.
\* Line 64, reached when line 62 returned, sets self.result_thread to None
\* whatever the thread it referred to is doing.  A listener is left behind
\* only below the model's bound.
initialize_components(raises) ==
    /\ listening => stale_listeners < MaxStaleListeners
    /\ stale_listeners' = IF listening THEN stale_listeners + 1 ELSE stale_listeners
    /\ IF raises
       THEN UNCHANGED <<result_thread, threads>>
       ELSE /\ result_thread' = 0
            /\ threads' = Release(threads, result_thread)

\* start_listening (main.py 160-171)
start_listening == listening' = TRUE

\* on_settings_closed (main.py 146-158).  With src/config.yaml missing the
\* handler shows a message box, QMessageBox.information (151), a modal
\* dialog that runs an event loop of its own: the events that arrive while
\* it is open are handled before the handler goes on.
\*   handling.box = FALSE  the handler is entered: it returns when the file
\*                         exists (150), else it opens the box
\*   handling.box = TRUE   the box has returned: initialize_components and
\*                         start_listening (156-158), whatever was handled
\*                         meanwhile, an exit included.  raises tells
\*                         whether create_local_model raised: an exception
\*                         that leaves the slot ends the process.
on_settings_closed(raises) ==
    CASE ~handling.box /\ config.config_file_exists ->
            UNCHANGED <<listening, stale_listeners, result_thread, threads,
                        exited, handling>>
      [] ~handling.box ->
            /\ handling' = [handling EXCEPT !.box = TRUE]
            /\ UNCHANGED <<listening, stale_listeners, result_thread, threads,
                           exited>>
      [] OTHER ->
            /\ initialize_components(raises)
            /\ IF raises
               THEN listening' = FALSE /\ exited' = TRUE
               ELSE start_listening /\ UNCHANGED exited
            /\ handling' = [handling EXCEPT !.box = FALSE]

(***************************************************************************)
(* History.                                                                *)
(***************************************************************************)
\* the event handled and the session s it concerns (for a foreground
\* handler the thread self.result_thread refers to, for a delivered result
\* its sender, for a worker step the worker), with, as of before the
\* event: that session's position and outcome, self.result_thread, and
\* whether that thread was running
Event(ev, s) ==
    [ev      |-> ev,
     s       |-> s,
     pc      |-> IF s = 0 THEN "none" ELSE threads[s].pc,
     outcome |-> IF s = 0 THEN "none" ELSE threads[s].outcome,
     rt      |-> result_thread,
     running |-> ThreadRunning]

(***************************************************************************)
(* A pipeline function called on its own (transcription.py): args is the   *)
(* function called with its arguments and the outcomes of what it calls    *)
(* outside the program, ret what the call returned.                        *)
(***************************************************************************)
\* the section model_options.local read by create_local_model
LocalOptions ==
    { [compute_type |-> c, device |-> d, model_path |-> mp, model |-> "base"] :
        c \in {"int8", "float16"}, d \in {"cuda", "cpu"},
        mp \in {NoModelPath, "", "/models/whisper"} }

\* no function is being called
NoCall ==
    [fn       |-> "none",
     text     |-> <<>>,
     popen_ok |-> TRUE,
     registrations |-> <<>>,
     registry |-> <<>>,
     audio    |-> NoAudio,
     backend  |-> [raises |-> FALSE, text |-> <<>>],
     local    |-> [compute_type |-> "int8", device |-> "cpu",
                   model_path |-> NoModelPath, model |-> "base"],
     load_ok  |-> <<TRUE, TRUE>>]

\* the call has not returned
NoReturn ==
    [fn       |-> "none",
     raised   |-> FALSE,
     executed |-> FALSE,
     text     |-> <<>>,
     popen    |-> 0,
     invoked  |-> <<>>,
     called   |-> "none",
     attempts |-> <<>>]

(***************************************************************************)
(* Initial state: after __init__ (main.py 20-48).  With a configuration    *)
(* file the components are initialized (lines 43-45): when                 *)
(* create_local_model raises there (line 62, local backend) the exception  *)
(* leaves __init__ and the process ends, the key listener created but not  *)
(* started; otherwise the key listener is started.  Without a              *)
(* configuration file the settings window is shown and there is no         *)
(* component yet.                                                          *)
(***************************************************************************)
Init ==
    /\ config \in ConfigSpace
    /\ \E local \in LocalOptions, load_ok \in BOOLEAN \X BOOLEAN :
          exited = ( /\ config.config_file_exists
                     /\ ~config.use_api
                     /\ create_local_model(local, load_ok).raised )
    /\ listening = (config.config_file_exists /\ ~exited)
    /\ stale_listeners = 0
    /\ pending = <<>>
    /\ handling = NotHandling
    /\ result_thread = 0
    /\ threads = <<>>
    /\ signals = <<>>
    /\ typewritten = <<>>
    /\ beeps = 0
    /\ launches = 0
    /\ completed = 0
    /\ last = [ev |-> "init", s |-> 0, pc |-> "none", outcome |-> "none",
               rt |-> 0, running |-> FALSE]
    /\ args = NoCall
    /\ ret = NoReturn

(***************************************************************************)
(* Foreground events.                                                      *)
(***************************************************************************)
\* the foreground context handles one event at a time: it takes a new one
\* when it is in no handler, or in the event loop of the message box of
\* on_settings_closed, and no callback of a key event is outstanding
ForegroundFree == ~exited /\ handling.pc = "none" /\ pending = <<>>

\* the key listeners that are started: each calls on_activation and
\* on_deactivation of the application for every key event
Listeners == stale_listeners + (IF listening THEN 1 ELSE 0)

\* the activation key is pressed: the first started listener calls
\* on_activation, the others have yet to
KeyPress ==
    /\ ForegroundFree
    /\ Listeners > 0
    /\ on_activation
    /\ pending' = [i \in 1..(Listeners - 1) |-> "on_activation"]
    /\ last' = Event("on_activation", result_thread)
    /\ UNCHANGED <<args, ret, stale_listeners, handling, exited>>
    /\ UNCHANGED <<config, listening, signals, typewritten, beeps, launches,
                   completed>>

\* the activation key is released: the first started listener calls
\* on_deactivation, the others have yet to
KeyRelease ==
    /\ ForegroundFree
    /\ Listeners > 0
    /\ on_deactivation
    /\ pending' = [i \in 1..(Listeners - 1) |-> "on_deactivation"]
    /\ last' = Event("on_deactivation", result_thread)
    /\ UNCHANGED <<args, ret, stale_listeners, handling, exited>>
    /\ UNCHANGED <<config, listening, signals, typewritten, beeps, launches,
                   completed>>

\* the next started listener calls its callback for the key event
ListenerCallback ==
    /\ ~exited
    /\ handling.pc = "none"
    /\ pending # <<>>
    /\ IF Head(pending) = "on_activation" THEN on_activation ELSE on_deactivation
    /\ pending' = Tail(pending)
    /\ last' = Event(Head(pending), result_thread)
    /\ UNCHANGED <<args, ret, stale_listeners, handling, exited>>
    /\ UNCHANGED <<config, listening, signals, typewritten, beeps, launches,
                   completed>>

\* status_window.closeSignal, connected by start_result_thread when the
\* status window is in use: the external stop request.  The window is the
\* one initialize_components created last, connected once a session has
\* been started since (self.result_thread is not None).  The modal message
\* box of on_settings_closed takes the input of the application's windows.
StatusWindowClosed ==
    /\ ForegroundFree
    /\ ~handling.box
    /\ ~config.hide_status_window
    /\ result_thread # 0
    /\ stop_result_thread
    /\ last' = Event("stop_result_thread", result_thread)
    /\ UNCHANGED <<args, ret, stale_listeners, pending, handling, exited>>
    /\ UNCHANGED <<config, listening, signals, typewritten, beeps, launches,
                   completed>>

\* the foreground event loop delivers the oldest queued resultSignal:
\* on_transcription_complete is entered and calls typewrite
DeliverResult ==
    /\ ForegroundFree
    /\ signals # <<>>
    /\ on_transcription_complete(Head(signals))
    /\ signals' = Tail(signals)
    /\ last' = Event("on_transcription_complete", Head(signals).sender)
    /\ UNCHANGED <<args, ret, stale_listeners, pending, exited>>
    /\ UNCHANGED <<config, launches, completed>>

\* input_simulator.typewrite returns and on_transcription_complete goes on
TypewriteReturns ==
    /\ ~exited
    /\ handling.pc = "typewrite"
    /\ on_transcription_complete(handling.sig)
    /\ last' = Event(IF handling'.pc = "play" THEN "play" ELSE "completion_handled",
                     handling.sig.sender)
    /\ UNCHANGED <<args, ret, stale_listeners, pending, exited>>
    /\ UNCHANGED <<config, signals, launches, completed>>

\* AudioPlayer.play(block=True) returns and on_transcription_complete goes on
PlayReturns ==
    /\ ~exited
    /\ handling.pc = "play"
    /\ on_transcription_complete(handling.sig)
    /\ last' = Event("completion_handled", handling.sig.sender)
    /\ UNCHANGED <<args, ret, stale_listeners, pending, exited>>
    /\ UNCHANGED <<config, signals, launches, completed>>

\* settings_window.settings_closed: the settings window, shown at start
\* without a configuration file or from the tray menu, is closed and
\* on_settings_closed is entered; create_local_model is not reached before
\* its message box.  The box is opened only when the listener it will
\* leave behind is below the model's bound.
SettingsClosed ==
    /\ ForegroundFree
    /\ ~handling.box
    /\ (~config.config_file_exists /\ listening) => stale_listeners < MaxStaleListeners
    /\ on_settings_closed(FALSE)
    /\ last' = Event("on_settings_closed", result_thread)
    /\ UNCHANGED <<args, ret, pending>>
    /\ UNCHANGED <<config, signals, typewritten, beeps, launches, completed>>

\* the message box of on_settings_closed returns, closed by the user or by
\* app.quit() of an exit handled in its event loop, and the handler goes
\* on.  local and load_ok are the section model_options.local and the
\* outcomes of loading the model in create_local_model.
MessageBoxReturns ==
    /\ handling.box
    /\ handling.pc = "none"
    /\ pending = <<>>
    /\ \E local \in LocalOptions, load_ok \in BOOLEAN \X BOOLEAN :
          on_settings_closed(~config.use_api /\ create_local_model(local, load_ok).raised)
    /\ last' = Event("settings_defaults", result_thread)
    /\ UNCHANGED <<args, ret, pending>>
    /\ UNCHANGED <<config, signals, typewritten, beeps, launches, completed>>

\* the Exit entry of the tray menu
TrayExit ==
    /\ ForegroundFree
    /\ exit_app
    /\ last' = Event("exit_app", result_thread)
    /\ UNCHANGED <<args, ret, stale_listeners, pending, handling>>
    /\ UNCHANGED <<config, result_thread, threads, signals, typewritten, beeps,
                   launches, completed>>

\* settings_window.settings_saved, of a settings window that is open
SettingsSaved ==
    /\ ForegroundFree
    /\ ~handling.box
    /\ restart_app
    /\ last' = Event("restart_app", result_thread)
    /\ UNCHANGED <<args, ret, stale_listeners, pending, handling>>
    /\ UNCHANGED <<config, result_thread, threads, signals, typewritten, beeps,
                   launches, completed>>

(***************************************************************************)
(* Worker steps of session s (spec.md 4.2, 5, 9).                          *)
(***************************************************************************)
\* WorkerCloseBuffer not looking at the cancellation token: every capture
\* that ends goes on to transcription
WorkerCloseBuffer_ignores_cancel(s) ==
    /\ ~exited
    /\ threads[s].pc = "recording"
    /\ \/ threads[s].stop_requested
       \/ threads[s].cancel_requested
       \/ config.recording_mode = "continuous"
    /\ threads' = [threads EXCEPT ![s].pc = "transcribing"]
    /\ last' = Event("close_buffer", s)
    /\ UNCHANGED <<args, ret, stale_listeners, pending, handling, exited>>
    /\ UNCHANGED <<config, listening, result_thread, signals, typewritten,
                   beeps, launches, completed>>

\* Capture ends: on a stop request, on a cancel, or, in continuous mode, on
\* the worker's own end-of-speech detection.  The cancellation token is
\* checked at the buffer-close boundary: a cancelled session goes directly
\* to Stopped, skips the pipeline and emits the empty result (spec.md 4.2).
WorkerCloseBuffer(s) ==
    /\ ~exited
    /\ threads[s].pc = "recording"
    /\ \/ threads[s].stop_requested
       \/ threads[s].cancel_requested
       \/ config.recording_mode = "continuous"
    /\ IF threads[s].cancel_requested
       THEN /\ threads' = [threads EXCEPT ![s].pc = "stopped",
                                          ![s].outcome = "cancelled"]
            /\ signals' = Append(signals, [sender |-> s, text |-> <<>>])
       ELSE /\ threads' = [threads EXCEPT ![s].pc = "transcribing"]
            /\ UNCHANGED signals
    /\ last' = Event("close_buffer", s)
    /\ UNCHANGED <<args, ret, stale_listeners, pending, handling, exited>>
    /\ UNCHANGED <<config, listening, result_thread, typewritten,
                   beeps, launches, completed>>

\* The pipeline completes: transcribe returns or raises (caught, empty
\* result), the session is Stopped and the result is emitted.
WorkerComplete(s) ==
    /\ ~exited
    /\ threads[s].pc = "transcribing"
    /\ \E audio \in AudioBuffers, backend \in BackendOutcomes, popen_ok \in BOOLEAN :
         \E r \in {transcribe(audio, config, backend, popen_ok)} :
         LET text == IF r.raised THEN <<>> ELSE r.text
         IN  /\ threads' = [threads EXCEPT
                               ![s].pc = "stopped",
                               ![s].outcome = IF r.raised THEN "error" ELSE "result",
                               ![s].text = text,
                               ![s].transcribe_calls = 1]
             /\ signals' = Append(signals, [sender |-> s, text |-> text])
             /\ launches' = launches + r.popen
    /\ completed' = completed + 1
    /\ last' = Event("complete", s)
    /\ UNCHANGED <<args, ret, stale_listeners, pending, handling, exited>>
    /\ UNCHANGED <<config, listening, result_thread, typewritten, beeps>>

\* A cancel that reached the session after it left Recording: outside the
\* contract of cancel(); the worker may see the token before the
\* transcription call (invoked = FALSE) or drop the result after it.  The
\* cancelled session emits the empty result (spec.md 4.2).
WorkerCancelled(s) ==
    /\ ~exited
    /\ threads[s].pc = "transcribing"
    /\ threads[s].cancel_requested
    /\ \E invoked \in BOOLEAN, audio \in AudioBuffers,
          backend \in BackendOutcomes, popen_ok \in BOOLEAN :
         \E r \in {transcribe(audio, config, backend, popen_ok)} :
             /\ threads' = [threads EXCEPT
                               ![s].pc = "stopped",
                               ![s].outcome = "cancelled",
                               ![s].transcribe_calls = IF invoked THEN 1 ELSE 0]
             /\ launches' = IF invoked THEN launches + r.popen ELSE launches
    /\ signals' = Append(signals, [sender |-> s, text |-> <<>>])
    /\ last' = Event("cancelled", s)
    /\ UNCHANGED <<args, ret, stale_listeners, pending, handling, exited>>
    /\ UNCHANGED <<config, listening, result_thread, typewritten,
                   beeps, completed>>

\* run() returns: the thread is no longer running
WorkerExit(s) ==
    /\ ~exited
    /\ threads[s].pc = "stopped"
    /\ threads' = IF s = result_thread
                  THEN [threads EXCEPT ![s].pc = "finished"]
                  ELSE [threads EXCEPT ![s] = Collected]
    /\ last' = Event("exit", s)
    /\ UNCHANGED <<args, ret, stale_listeners, pending, handling, exited>>
    /\ UNCHANGED <<config, listening, result_thread, signals, typewritten,
                   beeps, launches, completed>>

Next ==
    \/ KeyPress
    \/ KeyRelease
    \/ ListenerCallback
    \/ StatusWindowClosed
    \/ DeliverResult
    \/ TypewriteReturns
    \/ PlayReturns
    \/ SettingsClosed
    \/ MessageBoxReturns
    \/ TrayExit
    \/ SettingsSaved
    \/ \E s \in 1..Len(threads) : WorkerCloseBuffer(s)
    \/ \E s \in 1..Len(threads) : WorkerComplete(s)
    \/ \E s \in 1..Len(threads) : WorkerCancelled(s)
    \/ \E s \in 1..Len(threads) : WorkerExit(s)

Spec == Init /\ [][Next]_vars

(***************************************************************************)
(* The pipeline functions called on their own, on every argument of a      *)
(* bounded set.                                                            *)
(***************************************************************************)
\* the number of register_command calls that build a registry
MaxRegistrations == 2

\* the shorter phrase of the first-match example
WizOpen == <<119,105,122,32,111,112,101,110>>   \* "wiz open"

\* raw transcriptions
Transcriptions ==
    {
      \* "Hello.": no command; a trailing period
      <<72,101,108,108,111,46>>,
      \* "": the empty transcription
      <<>>,
      \* " ": white space only
      <<32>>,
      \* " Hi. ": no command; surrounding white space
      <<32,72,105,46,32>>,
      \* "Wiz open edge.": the command, capitalised, then a period
      <<87,105,122,32,111,112,101,110,32,101,100,103,101,46>>,
      \* "wiz,open edge": the command's words separated by punctuation
      <<119,105,122,44,111,112,101,110,32,101,100,103,101>>,
      \* "wiz  Open<TAB>EDGE go": runs of white space, mixed case
      <<119,105,122,32,32,79,112,101,110,9,69,68,71,69,32,103,111>>,
      \* "wiz wiz open edge open edge": the command inside the command
      <<119,105,122,32,119,105,122,32,111,112,101,110,32,101,100,103,101,32,111,112,101,110,32,101,100,103,101>>,
      \* "wiz open up": the shorter phrase only
      <<119,105,122,32,111,112,101,110,32,117,112>>,
      \* "wizopen edge": no command, the words run together
      <<119,105,122,111,112,101,110,32,101,100,103,101>>,
      \* " say Wiz Open Edge ": the command inside surrounding white space
      <<32,115,97,121,32,87,105,122,32,79,112,101,110,32,69,100,103,101,32>>,
      \* "wiz<CR>open<NBSP>edge<EM SPACE>": white space outside ASCII
      <<119,105,122,13,111,112,101,110,160,101,100,103,101,8195>>,
      \* "W<U+0130>Z open edge": the dotted capital I, whose lowercase is two characters
      <<87,304,90,32,111,112,101,110,32,101,100,103,101>>,
      \* "wiz<U+00E9>open edge": a non-ASCII letter joins the words
      <<119,105,122,233,111,112,101,110,32,101,100,103,101>>,
      \* "<U+00C9>t<U+00E9> <U+039F><U+0394><U+039F><U+03A3>.": non-ASCII capitals, a final sigma
      <<201,116,233,32,927,916,927,931,46>>
    }

\* the post_processing section: every combination of its three flags
PostProcessingFlags ==
    { [remove_trailing_period |-> p, add_trailing_space |-> s,
       remove_capitalization |-> c] : p \in BOOLEAN, s \in BOOLEAN, c \in BOOLEAN }

\* the configurations the pipeline functions are called under
PipelineConfigs ==
    { [recording_mode      |-> "press_to_toggle",
       hide_status_window  |-> TRUE,
       noise_on_completion |-> FALSE,
       use_api             |-> a,
       post_processing     |-> pp] : a \in BOOLEAN, pp \in PostProcessingFlags }

\* register_command calls: a phrase and the handler registered under it
Registrations ==
    { [phrase |-> ph, handler |-> h] :
        ph \in {WizOpenEdge, WizOpen}, h \in {"handle_open_edge", "handle_open"} }

\* the registry after the register_command calls regs, made in order
RECURSIVE register_all(_, _)
register_all(handlers, regs) ==
    IF regs = <<>> THEN handlers
    ELSE register_all(register_command(handlers, Head(regs).phrase, Head(regs).handler),
                      Tail(regs))

\* the register_command calls made before execute_commands is called
RegistrationSeqs == UNION { [1..n -> Registrations] : n \in 0..MaxRegistrations }

\* the transcriptions a backend returns, or it raises
PipelineBackends ==
    {[raises |-> TRUE, text |-> <<>>]}
        \cup {[raises |-> FALSE, text |-> t] : t \in Transcriptions}

Calls ==
    { [NoCall EXCEPT !.fn = "execute_commands", !.text = t, !.popen_ok = ok,
                     !.registrations = regs,
                     !.registry = register_all(<<>>, regs)] :
        t \in Transcriptions, ok \in BOOLEAN, regs \in RegistrationSeqs }
    \cup
    { [NoCall EXCEPT !.fn = "post_process_transcription", !.text = t, !.popen_ok = ok,
                     !.registrations = COMMAND_HANDLERS,
                     !.registry = COMMAND_HANDLERS] :
        t \in Transcriptions, ok \in BOOLEAN }
    \cup
    { [NoCall EXCEPT !.fn = "transcribe", !.audio = a, !.backend = b, !.popen_ok = ok,
                     !.registrations = COMMAND_HANDLERS,
                     !.registry = COMMAND_HANDLERS] :
        a \in AudioBuffers, b \in PipelineBackends, ok \in BOOLEAN }
    \cup
    { [NoCall EXCEPT !.fn = "create_local_model", !.local = o, !.load_ok = l] :
        o \in LocalOptions, l \in [1..2 -> BOOLEAN] }

\* what the call of fn returned: the fields of r, the others as in NoReturn
Returned(fn, r) ==
    The({ [f \in DOMAIN NoReturn |->
              IF f = "fn" THEN fn ELSE IF f \in DOMAIN v THEN v[f] ELSE NoReturn[f]]
          : v \in {r} })

InitCalls ==
    /\ args \in Calls
    /\ config \in IF args.fn \in {"post_process_transcription", "transcribe"}
                  THEN PipelineConfigs
                  ELSE { c \in PipelineConfigs :
                           /\ ~c.use_api
                           /\ \A f \in DOMAIN c.post_processing : ~c.post_processing[f] }
    /\ ret = NoReturn
    /\ listening = FALSE
    /\ stale_listeners = 0
    /\ pending = <<>>
    /\ handling = NotHandling
    /\ exited = FALSE
    /\ result_thread = 0
    /\ threads = <<>>
    /\ signals = <<>>
    /\ typewritten = <<>>
    /\ beeps = 0
    /\ launches = 0
    /\ completed = 0
    /\ last = [ev |-> "init", s |-> 0, pc |-> "none", outcome |-> "none",
               rt |-> 0, running |-> FALSE]

\* execute_commands(args.text) with COMMAND_HANDLERS = args.registry
Call_execute_commands ==
    /\ args.fn = "execute_commands"
    /\ ret = NoReturn
    /\ ret' = Returned(args.fn, execute_from(args.registry, 1, args.text, args.popen_ok))
    /\ launches' = launches + ret'.popen
    /\ UNCHANGED <<config, listening, stale_listeners, pending, handling, exited,
                   result_thread, threads, signals, typewritten,
                   beeps, completed, last, args>>

\* post_process_transcription(args.text)
Call_post_process_transcription ==
    /\ args.fn = "post_process_transcription"
    /\ ret = NoReturn
    /\ ret' = Returned(args.fn,
                       post_process_transcription(args.text, config.post_processing,
                                                  args.popen_ok))
    /\ launches' = launches + ret'.popen
    /\ UNCHANGED <<config, listening, stale_listeners, pending, handling, exited,
                   result_thread, threads, signals, typewritten,
                   beeps, completed, last, args>>

\* transcribe(args.audio), the selected backend answering args.backend
Call_transcribe ==
    /\ args.fn = "transcribe"
    /\ ret = NoReturn
    /\ ret' = Returned(args.fn,
                       transcribe(args.audio, config, args.backend, args.popen_ok))
    /\ launches' = launches + ret'.popen
    /\ UNCHANGED <<config, listening, stale_listeners, pending, handling, exited,
                   result_thread, threads, signals, typewritten,
                   beeps, completed, last, args>>

\* create_local_model() under the section args.local
Call_create_local_model ==
    /\ args.fn = "create_local_model"
    /\ ret = NoReturn
    /\ ret' = Returned(args.fn, create_local_model(args.local, args.load_ok))
    /\ UNCHANGED <<config, listening, stale_listeners, pending, handling, exited,
                   result_thread, threads, signals, typewritten,
                   beeps, launches, completed, last, args>>

NextCalls ==
    \/ Call_execute_commands
    \/ Call_post_process_transcription
    \/ Call_transcribe
    \/ Call_create_local_model

SpecCalls == InitCalls /\ [][NextCalls]_vars

(***************************************************************************)
(* Properties.                                                             *)
(***************************************************************************)
Sessions == 1..Len(threads)

\* the sessions in a non-Idle state (Recording or Transcribing)
NonIdle ==
    { s \in Sessions : SessionState(threads[s]) \in {"Recording", "Transcribing"} }

Mode == config.recording_mode

\* the step is the handling of event ev
Handled(ev) == last'.ev = ev

\* the step starts a new session, which is Recording and becomes current
StartsSession ==
    /\ Len(threads') = Len(threads) + 1
    /\ result_thread' = Len(threads')
    /\ threads'[result_thread'].pc = "recording"

\* the step creates no session and keeps the current one
KeepsSession ==
    /\ Len(threads') = Len(threads)
    /\ result_thread' = result_thread

\* the step changes, of the current thread, at most its stop request
OnlyRequestsStop ==
    /\ KeepsSession
    /\ threads'[result_thread].stop_requested
    /\ threads' = [threads EXCEPT ![result_thread].stop_requested = TRUE]

\* the worker steps of a session follow Recording -> Transcribing ->
\* Stopped, each position entered once
InOrder ==
    \A s \in Sessions :
        threads'[s].pc # threads[s].pc =>
            <<threads[s].pc, threads'[s].pc>> \in
                { <<"recording", "transcribing">>, <<"recording", "stopped">>,
                  <<"transcribing", "stopped">>, <<"stopped", "finished">> }

\* C1: in every recording mode at most one session is Recording or
\* Transcribing at any instant, and a step taken while the current thread
\* is running neither creates a session nor changes self.result_thread.
\* (Refuted: on_settings_closed without a configuration file clears
\* self.result_thread while its session is Recording, and the next
\* activation starts a second one.)
C1_AtMostOneSession ==
    /\ [](Cardinality(NonIdle) <= 1)
    /\ [][ThreadRunning => KeepsSession]_vars

C3_HoldToRecord ==
    [][ Mode = "hold_to_record" =>
          /\ (Handled("on_deactivation") /\ \A s \in Sessions : ~isRunning(threads[s]))
                => UNCHANGED progVars
          /\ Handled("on_deactivation") =>
                \A s \in Sessions :
                    threads[s].pc = "recording" => threads'[s].stop_requested
          /\ (Handled("close_buffer") /\ ~threads[last'.s].cancel_requested) =>
                /\ threads[last'.s].stop_requested
                /\ threads'[last'.s].pc = "transcribing" ]_vars

\* C4: the events the mode table marks as no-ops change nothing of the
\* program state: a deactivation in press_to_toggle and continuous modes,
\* and an activation in hold_to_record mode while a session is active
\* (Recording or Transcribing).
\* (Refuted: with an active session that initialize_components orphaned,
\* see C1, the activation starts a new session.)
C4_NoOps ==
    [][ ( \/ Handled("on_deactivation") /\ Mode \in {"press_to_toggle", "continuous"}
          \/ Handled("on_activation") /\ Mode = "hold_to_record" /\ NonIdle # {} )
        => UNCHANGED progVars ]_vars

\* C5: in continuous mode, whenever a session's result is delivered and no
\* stop was requested of that session, a session is active (Recording or
\* Transcribing) once the completion callback has run to its end.
C5_ContinuousRestarts ==
    [][ ( /\ Mode = "continuous"
          /\ Handled("completion_handled")
          /\ ~threads[last'.s].cancel_requested )
        => /\ result_thread' # 0
           /\ SessionState(threads'[result_thread']) \in {"Recording", "Transcribing"}
      ]_vars

\* C6: in continuous mode an activation while the current session is active
\* requests cancel on it and starts no session; the session ends its
\* capture and proceeds to transcription, so that it has been transcribed
\* when its completion is handled; and once that completion has been
\* handled a new session is active.
\* (Refuted: the activation calls stop(), the hard abort, and the restart
\* is refused while the thread that emitted is still running, see C5.)
C6_ContinuousCancel ==
    [][ Mode = "continuous" =>
          /\ (Handled("on_activation") /\ result_thread \in NonIdle) =>
                /\ KeepsSession
                /\ threads'[result_thread].cancel_requested
          /\ (Handled("completion_handled") /\ threads[last'.s].cancel_at = "recording") =>
                /\ threads[last'.s].transcribe_calls = 1
                /\ result_thread' # 0
                /\ SessionState(threads'[result_thread'])
                      \in {"Recording", "Transcribing"} ]_vars

\* the entries of the typewrite log and of the pending emissions that come
\* from session s
EntriesOf(s) ==
    LET all == typewritten \o signals
    IN  { i \in 1..Len(all) : all[i].sender = s }

\* the calls of typewrite made with the result of session s
TypedOf(s) == { i \in 1..Len(typewritten) : typewritten[i].sender = s }

\* C7: typewrite is called once for every session that completes without
\* being cancelled, with that session's final text, and never for a
\* cancelled session: a call belongs to a session that completed, carries
\* its text, no session has two, and the calls made never outnumber the
\* sessions completed.
\* (Refuted: a cancelled session emits the empty result and
\* on_transcription_complete types whatever is emitted.)
C7_TypewriteOncePerSession ==
    /\ [](/\ Len(typewritten) <= completed
          /\ \A s \in Sessions :
                /\ Cardinality(TypedOf(s)) <= 1
                /\ threads[s].outcome \in {"none", "cancelled"} => TypedOf(s) = {}
                /\ threads[s].outcome \in {"result", "error"} =>
                      \A i \in TypedOf(s) : typewritten[i].text = threads[s].text)
    /\ [][ IF Handled("on_transcription_complete")
           THEN /\ typewritten' = Append(typewritten, Head(signals))
                /\ signals' = Tail(signals)
           ELSE typewritten' = typewritten ]_vars

\* C8: stop_result_thread, and an activation in continuous mode, issue a
\* cancel to the running session; a session whose first cancel was issued
\* while it was Recording goes from Recording directly to Stopped, never
\* enters Transcribing, has transcribe called zero times, and ends
\* cancelled with the empty result, which is what it emits.
C8_CancelWhileRecording ==
    /\ [](\A s \in Sessions :
            threads[s].cancel_at = "recording" =>
                /\ threads[s].pc \in {"recording", "stopped", "finished"}
                /\ threads[s].transcribe_calls = 0
                /\ threads[s].text = <<>>
                /\ threads[s].pc # "recording" => threads[s].outcome = "cancelled"
                /\ \A i \in EntriesOf(s) : (typewritten \o signals)[i].text = <<>>)
    /\ [][ (Handled("close_buffer") /\ threads[last'.s].cancel_at = "recording") =>
              /\ threads'[last'.s].pc = "stopped"
              /\ signals' = Append(signals, [sender |-> last'.s, text |-> <<>>]) ]_vars
    /\ [][ ( /\ \/ Handled("stop_result_thread")
                \/ Handled("on_activation") /\ Mode = "continuous"
             /\ ThreadRunning
             /\ threads[result_thread].pc = "recording" )
           => /\ KeepsSession
              /\ threads'[result_thread].cancel_requested
              /\ threads'[result_thread].cancel_at = "recording" ]_vars

\* a session cancelled by the external stop while Recording has just gone
\* to Stopped: cancelled, never transcribed, the empty result emitted
C8_Witness ==
    /\ last.ev = "close_buffer"
    /\ Mode # "continuous"
    /\ threads[last.s].cancel_at = "recording"
    /\ threads[last.s].pc = "stopped"
    /\ threads[last.s].outcome = "cancelled"
    /\ threads[last.s].transcribe_calls = 0
    /\ signals = << [sender |-> last.s, text |-> <<>>] >>

\* C9: when the backend raises, the session is Stopped with the empty
\* string as its result, which is emitted and typed like any other; and an
\* activation after that session has reached Stopped starts a new session.
\* (Refuted: while run() of the Stopped session has not returned the start
\* is refused, see C10.)
C9_BackendErrorRecovered ==
    [][ /\ (Handled("complete") /\ threads'[last'.s].outcome = "error") =>
              /\ threads'[last'.s].pc = "stopped"
              /\ threads'[last'.s].text = <<>>
              /\ signals' = Append(signals, [sender |-> last'.s, text |-> <<>>])
        /\ (Handled("on_transcription_complete") /\ threads[last'.s].outcome = "error") =>
              typewritten' = Append(typewritten, [sender |-> last'.s, text |-> <<>>])
        /\ ( /\ Handled("on_activation")
             /\ result_thread # 0
             /\ SessionState(threads[result_thread]) = "Stopped"
             /\ threads[result_thread].outcome = "error" ) => StartsSession ]_vars

\* C10, for a session that completed and emitted its result: no activation
\* delivered after the current session has reached Stopped is lost: it
\* starts a new session.
C10_NoActivationLost ==
    [][ ( /\ Handled("on_activation")
          /\ result_thread # 0
          /\ SessionState(threads[result_thread]) = "Stopped"
          /\ threads[result_thread].outcome \in {"result", "error"} )
        => StartsSession ]_vars


(***************************************************************************)
(* The command registry and the text pipeline (SpecCalls).                 *)
(***************************************************************************)
\* the call of fn has returned
Called(fn) == args.fn = fn /\ ret.fn = fn

\* the places in the registration sequence regs whose phrase is a substring
\* of the sanitized text
MatchingRegistrations(regs, text) ==
    { i \in 1..Len(regs) : str_contains(sanitize_text(text), regs[i].phrase) }

\* the registry entry that answers for the phrase registered at place i:
\* the phrase with the handler most recently registered under it
EntryFor(regs, i) ==
    LET latest == CHOOSE j \in 1..Len(regs) :
                      /\ regs[j].phrase = regs[i].phrase
                      /\ \A k \in (j + 1)..Len(regs) : regs[k].phrase # regs[i].phrase
    IN  [phrase |-> regs[i].phrase, handler |-> regs[latest].handler]

\* the least element of a non-empty set of numbers
Least(S) == CHOOSE i \in S : \A j \in S : i <= j

\* the registration sequence of the first-match example
EdgeThenOpen ==
    << [phrase |-> WizOpenEdge, handler |-> "handle_open_edge"],
       [phrase |-> WizOpen,     handler |-> "handle_open"] >>

\* C11: execute_commands is first-match.  For every registration sequence
\* and every text, the handlers invoked are exactly: none when no
\* registered phrase is a substring of the sanitized text, and otherwise the
\* one handler registered under the earliest registered phrase that is a
\* substring of it; with "wiz open edge" registered before "wiz open" and a
\* text containing both, only the handler of "wiz open edge" runs.
C11_FirstMatch ==
    Called("execute_commands") =>
        /\ Len(ret.invoked) <= 1
        /\ IF MatchingRegistrations(args.registrations, args.text) = {}
           THEN ret.invoked = <<>>
           ELSE ret.invoked =
                    << EntryFor(args.registrations,
                                Least(MatchingRegistrations(args.registrations,
                                                            args.text))) >>
        /\ (/\ args.registrations = EdgeThenOpen
            /\ str_contains(sanitize_text(args.text), WizOpenEdge))
           => ret.invoked = << EdgeThenOpen[1] >>

\* C11 witness: both phrases registered, "wiz open edge" first, a text whose
\* sanitized form contains both, and the call returned after running the
\* first handler only
C11_Witness ==
    /\ Called("execute_commands")
    /\ args.registrations = EdgeThenOpen
    /\ Cardinality(MatchingRegistrations(args.registrations, args.text)) = 2
    /\ ret.invoked = << EdgeThenOpen[1] >>
    /\ ret.popen = 1

\* the shipped registry matched the text and its handler reported success
OpenEdgeExecuted ==
    /\ Called("execute_commands")
    /\ args.registry = COMMAND_HANDLERS
    /\ str_contains(sanitize_text(args.text), WizOpenEdge)
    /\ ret.executed

\* C12: when the command matches and its handler succeeds, the text
\* returned no longer contains the command phrase (its sanitized form does
\* not contain "wiz open edge"), whatever separates the phrase's words in
\* the original and whatever their case.
C12_PhraseRemoved ==
    OpenEdgeExecuted => ~str_contains(sanitize_text(ret.text), WizOpenEdge)

\* TextPostProcessor.apply: trim, then drop one trailing period, then
\* append one space, then lowercase, each but the first under its flag
DropTrailingPeriod(text, flag) ==
    IF flag /\ text # <<>> /\ text[Len(text)] = 46
    THEN SubSeq(text, 1, Len(text) - 1) ELSE text
AppendSpace(text, flag) == IF flag THEN Append(text, 32) ELSE text
FoldCase(text, flag) == IF flag THEN str_lower(text) ELSE text
TextPostProcessor(text, pp) ==
    FoldCase(AppendSpace(DropTrailingPeriod(str_strip(text), pp.remove_trailing_period),
                         pp.add_trailing_space),
             pp.remove_capitalization)

\* C13: when the matched handler fails (its Popen call raises),
\* execute_commands has called it, reports executed = FALSE and returns the
\* text it was given; post_process_transcription then returns, and what it
\* returns is that unmodified text taken through the post-processing steps.
C13_HandlerFailure ==
    /\ (/\ Called("execute_commands")
        /\ args.registry = COMMAND_HANDLERS
        /\ str_contains(sanitize_text(args.text), WizOpenEdge)
        /\ ~args.popen_ok)
       => (/\ ret.invoked = COMMAND_HANDLERS
           /\ ret.popen = 1
           /\ ~ret.executed
           /\ ret.text = args.text)
    /\ (/\ Called("post_process_transcription")
        /\ str_contains(sanitize_text(args.text), WizOpenEdge)
        /\ ~args.popen_ok)
       => (/\ ~ret.raised
           /\ ret.popen = 1
           /\ ~ret.executed
           /\ ret.text = TextPostProcessor(args.text, config.post_processing))

\* C13 witness: post-processing of a text holding the command, the Popen
\* call raised, the text came back with the phrase still in it
C13_Witness ==
    /\ Called("post_process_transcription")
    /\ ~args.popen_ok
    /\ ret.popen = 1
    /\ ~ret.executed
    /\ str_contains(sanitize_text(ret.text), WizOpenEdge)
    /\ config.post_processing.add_trailing_space

\* C14: when no registered phrase is a substring of the sanitized text,
\* execute_commands invokes no handler, launches nothing and returns
\* (FALSE, text) with the text identical to its argument.
C14_NoMatchUnchanged ==
    (/\ Called("execute_commands")
     /\ MatchingRegistrations(args.registry, args.text) = {})
    => (/\ ret.invoked = <<>>
        /\ ret.popen = 0
        /\ launches = 0
        /\ ~ret.executed
        /\ ret.text = args.text)

\* C14 witness: a registry with both phrases, a text with surrounding white
\* space and punctuation that holds neither, and the call returned
C14_Witness ==
    /\ Called("execute_commands")
    /\ Len(args.registry) = 2
    /\ MatchingRegistrations(args.registry, args.text) = {}
    /\ args.text # sanitize_text(args.text)
    /\ ret.text = args.text

\* every post-processing flag is set
AllFlags ==
    /\ config.post_processing.remove_trailing_period
    /\ config.post_processing.add_trailing_space
    /\ config.post_processing.remove_capitalization

\* C15: the text leaving post_process_transcription is the text the command
\* step leaves, taken through trim, drop one trailing period, append one
\* space, lowercase, in that order and each under its flag, for every text
\* and flag combination; for a text that holds no command that is the
\* composition applied to the text itself, and "Hello." with all three
\* flags gives "hello ".
C15_PostProcessingOrder ==
    Called("post_process_transcription") =>
        /\ ret.text = TextPostProcessor(execute_commands(args.text, args.popen_ok).text,
                                        config.post_processing)
        /\ ~str_contains(sanitize_text(args.text), WizOpenEdge)
           => ret.text = TextPostProcessor(args.text, config.post_processing)
        /\ (args.text = <<72,101,108,108,111,46>> /\ AllFlags)
           => ret.text = <<104,101,108,108,111,32>>

\* C15 witness: "Hello." post-processed with all three flags set
C15_Witness ==
    /\ Called("post_process_transcription")
    /\ args.text = <<72,101,108,108,111,46>>
    /\ AllFlags
    /\ ret.text = <<104,101,108,108,111,32>>

\* C16: transcribe on an audio buffer without samples returns the empty
\* string and calls neither backend.
C16_EmptyAudioSkipsBackends ==
    (Called("transcribe") /\ args.audio.samples = <<>>)
    => (~ret.raised /\ ret.text = <<>> /\ ret.called = "none")

\* C17: when the backend returns the empty transcription, transcribe
\* returns the empty string, under every post-processing flag combination.
C17_EmptyTranscriptionShortCircuits ==
    (/\ Called("transcribe")
     /\ args.audio # NoAudio
     /\ ~args.backend.raises
     /\ args.backend.text = <<>>)
    => (~ret.raised /\ ret.text = <<>>)

\* the model identifier: the configured model_path if set, else the named
\* model
ModelIdentifier(local) ==
    IF local.model_path # NoModelPath /\ local.model_path # ""
    THEN local.model_path ELSE local.model

\* C18: when the first construction of the model fails, create_local_model
\* constructs it once more, on the CPU, with the same model identifier and
\* the same compute type, and raises only if that second construction fails
\* too; when the first construction succeeds it is the only one.
C18_CpuFallback ==
    Called("create_local_model") =>
        /\ ret.attempts[1].model = ModelIdentifier(args.local)
        /\ ret.attempts[1].compute_type = args.local.compute_type
        /\ args.load_ok[1] => (Len(ret.attempts) = 1 /\ ~ret.raised)
        /\ ~args.load_ok[1]
           => (/\ Len(ret.attempts) = 2
               /\ ret.attempts[2].model = ModelIdentifier(args.local)
               /\ ret.attempts[2].device = "cpu"
               /\ ret.attempts[2].compute_type = args.local.compute_type
               /\ ret.raised = ~args.load_ok[2])

\* C18 witness: a model path is configured, the construction on cuda failed
\* and the one on the CPU succeeded
C18_Witness ==
    /\ Called("create_local_model")
    /\ args.local.model_path = "/models/whisper"
    /\ ret.attempts[1].device = "cuda"
    /\ Len(ret.attempts) = 2
    /\ ret.attempts[2].device = "cpu"
    /\ ~ret.raised


(***************************************************************************)
(* Repeated stop requests (Spec).                                          *)
(***************************************************************************)
\* the step handles a stop request of the mode: an activation in
\* press_to_toggle mode, a deactivation in hold_to_record mode
StopRequest ==
    \/ Mode = "press_to_toggle" /\ Handled("on_activation")
    \/ Mode = "hold_to_record" /\ Handled("on_deactivation")

\* C19: stop requests are idempotent per session.  A stop request handled
\* while a session that was asked to stop before is still running
\* (Recording, Transcribing, or Stopped with run() not yet returned) changes
\* nothing, and in particular starts no session; no session is transcribed
\* more than once or has more than one result, and a session that was
\* asked to stop and completed was transcribed exactly once and has exactly
\* one result, typed or waiting to be typed.
\* (Refuted: once initialize_components has cleared self.result_thread, see
\* C1, a further activation starts a session while the one asked to stop
\* is still running.)
C19_StopRequestsIdempotent ==
    /\ [][ ( /\ StopRequest
             /\ \E s \in Sessions :
                    threads[s].stop_requested /\ isRunning(threads[s]) )
           => UNCHANGED progVars ]_vars
    /\ [](\A s \in Sessions :
              /\ threads[s].transcribe_calls <= 1
              /\ Cardinality(EntriesOf(s)) <= 1
              /\ (threads[s].stop_requested /\ threads[s].outcome \in {"result", "error"})
                 => (/\ threads[s].transcribe_calls = 1
                     /\ Cardinality(EntriesOf(s)) = 1))

=============================================================================
